---- MODULE Spec2Model ----
(***************************************************************************)
(* The pipeline home page (HomePage) of the appeal-analysis front end:     *)
(* three dependent stages (clean, cluster, summarise), each an async       *)
(* handler around remote calls, the run controls of PipelineStepCard, the  *)
(* file selector and the configuration dialogs.                            *)
(*                                                                         *)
(* React state is modelled variable by variable under the source's names.  *)
(* One action is one synchronous section of a handler: the code from a     *)
(* click (or from the resumption after an await) up to the next await.     *)
(* All setState calls of such a section are applied together (automatic    *)
(* batching), so the section is atomic.                                    *)
(*                                                                         *)
(* The specifications share the variables.  Spec is the lifetime of one    *)
(* mounted HomePage.  SpecReport starts from a HomePage whose stage 3 call *)
(* is outstanding and lets it resolve with generated row lists, for the    *)
(* report (reportData); SpecAggregate does the same with rows that may     *)
(* lack their keyword.  SpecPages is Page with the standalone ClusterPage  *)
(* and KeywordsPage mounted one at a time.  SpecConfig is the HomePage     *)
(* with its three configuration dialogs, SpecErrors the HomePage with      *)
(* every kind of failed response (SpecTermination adds fairness), and      *)
(* SpecResults the ResultsPage with its file reads.                        *)
(*                                                                         *)
(* Nullable values:  <<>> is null, <<v>> is the value v.  File names and   *)
(* paths are sequences of characters; for a name, <<>> is null (the code   *)
(* never stores an empty name: it tests the name for truthiness first).    *)
(***************************************************************************)
EXTENDS Integers, Sequences, FiniteSets, TLC

VARIABLES
    file,                     \* File | null: the selected input file
    preprocessResult,         \* PreprocessResponse | null
    clusterResult,            \* ClusterResponse | null
    keywordsResult,           \* KeywordsResponse | null
    realClusteredFilename,    \* string | null: canonical name of stage 2's output
    realKeywordsFilename,     \* string | null: canonical name of stage 3's output
    step1Loading, step1Progress, step1ProgressText,
    step2Loading, step2Progress, step2ProgressText,
    step3Loading, step3Progress, step3ProgressText,
    error,                    \* string | null
    llmDialogOpen,
    llmCfg,                   \* committed LlmConfig
    tempLlm,                  \* draft LlmConfig edited in the dialog
    cleanDialogOpen, cleanCfg, tempClean,         \* the same for CleanConfig
    clusterDialogOpen, clusterCfg, tempCluster,   \* and for ClusterConfig
    call1, call2, call3,      \* the outstanding await of each handler
    currentPage,              \* Page: the page that is mounted
    pgFile, pgApiKey,         \* state of the mounted standalone page
    pgLoading, pgProgress, pgProgressText,
    pgResult, pgError,
    pgCall,                   \* its outstanding await
    pgLoadingState, pgStateResult,   \* ClusterPage: the load-state request
    rpFile, rpData, rpColumns,       \* ResultsPage: file, data, columns
    rpFilterNoise, rpError,          \* ResultsPage: filterNoise, error
    rpReads,                         \* ResultsPage: the file reads in flight
    lastEvent                 \* history: the event whose handler section ran last

pipelineVars ==
    << file, preprocessResult, clusterResult, keywordsResult,
       realClusteredFilename, realKeywordsFilename,
       step1Loading, step1Progress, step1ProgressText,
       step2Loading, step2Progress, step2ProgressText,
       step3Loading, step3Progress, step3ProgressText,
       error, call1, call2, call3 >>

cleanConfigVars == << cleanDialogOpen, cleanCfg, tempClean >>

clusterConfigVars == << clusterDialogOpen, clusterCfg, tempCluster >>

configVars == << llmDialogOpen, llmCfg, tempLlm, cleanConfigVars, clusterConfigVars >>

\* ClusterPage and KeywordsPage keep the same kind of state (file, loading,
\* result, error); one page is mounted at a time, so one set of variables
\* holds the state of whichever of the two is mounted
standaloneVars ==
    << currentPage, pgFile, pgApiKey, pgLoading, pgProgress, pgProgressText,
       pgResult, pgError, pgCall, pgLoadingState, pgStateResult >>

resultsVars == << rpFile, rpData, rpColumns, rpFilterNoise, rpError, rpReads >>

vars == << pipelineVars, configVars, standaloneVars, resultsVars, lastEvent >>

-----------------------------------------------------------------------------
(* Bounds and input domains *)

\* number of distinct input files the operator can choose from
NumFiles == 2

Null == <<>>

Some(v) == <<v>>

FileChars == <<"a", "b", "c", "d">>

FileNames == { <<FileChars[i], ".", "x">> : i \in 1..NumFiles }

Files == { [name |-> n] : n \in FileNames }

\* output_file values a response may carry: an absent (or empty) field, a
\* path whose last segment is a name, and a path that ends in a separator
OutputFiles ==
    { <<>>,
      <<"o", "\\", "x">>,
      <<"o", "/">> }

DefaultApiKey == "sk-f1fec6b90628475ba7ce12b2c389c85a"

DefaultBaseUrl == "https://api.deepseek.com"

ApiKeys == { "", DefaultApiKey }

\* initial CleanConfig and the values its dialog can give the fields
DefaultCleanCfg == [extractor |-> "12366", useNer |-> TRUE, column |-> "content"]

Extractors == { "12366", "zn" }

Columns == { "content" }

\* initial ClusterConfig and the values its dialog can give the fields
DefaultClusterCfg ==
    [ nNeighbors |-> 15, nComponents |-> 5, minCluster |-> 10, topN |-> 5,
      textColumn |-> "Sanitized_Content", originalColumn |-> "id" ]

NeighborCounts == { 15, 16 }

MinClusterSizes == { 10 }

TopNs == { 5 }

BaseUrls == { DefaultBaseUrl }

PreprocessResponses == { [message |-> "ok"] }

ClusterResponses == { [message |-> "ok", output_file |-> p] : p \in OutputFiles }

\* the pipeline specification keeps the row list of a stage 3 response fixed
\* (empty); the report specification below varies it
KeywordsResponses ==
    { [message |-> "ok", output_file |-> p, result |-> Some(<<>>)] : p \in OutputFiles }

\* A response that is not ok: its status, and its body, which is JSON or not
\* and, when JSON, may hold a detail
ErrorResponses ==
    [ status : { 404, 500 },
      body : { [json |-> FALSE, detail |-> Null],
               [json |-> TRUE, detail |-> Null],
               [json |-> TRUE, detail |-> Some("")],
               [json |-> TRUE, detail |-> Some("no such column")] } ]

\* mutant of ApiErrorText: the detail is never used
ApiErrorText_StatusOnly(res) == "HTTP " \o ToString(res.status)

\* err = await res.json().catch(() => ({ detail: "Unknown error" }));
\* err.detail || `HTTP ${res.status}`
ApiErrorText(res) ==
    LET err == IF res.body.json THEN res.body ELSE [detail |-> Some("Unknown error")] IN
    IF err.detail # Null /\ err.detail[1] # ""
    THEN err.detail[1]
    ELSE "HTTP " \o ToString(res.status)

\* the Error that preprocessFile, clusterData, extractKeywords and loadState
\* throw for the response res; response records what was answered
ApiError(res) == [isError |-> TRUE, message |-> ApiErrorText(res), response |-> Some(res)]

\* the Error that downloadFile throws for the response res
DownloadError(res) ==
    [ isError |-> TRUE,
      message |-> "Download failed: HTTP " \o ToString(res.status),
      response |-> Some(res) ]

\* a rejection with a value that is no Error
NonError == [isError |-> FALSE, message |-> "", response |-> Null]

\* what an awaited remote call can reject with: an Error carrying a message,
\* or a value that is no Error; the pipeline specification keeps one
\* response per kind of call
Failures ==
    { ApiError([status |-> 500, body |-> [json |-> TRUE, detail |-> Null]]), NonError }

DownloadFailures ==
    { DownloadError([status |-> 404, body |-> [json |-> TRUE, detail |-> Null]]) }

\* The outstanding await of a handler: op is the awaited operation ("none"
\* when the handler is not running); name and cfg are what the handler's
\* closure captured at the press and still has to use: the file (stage 1) or
\* artifact name (stages 2, 3) of the request, and the stage's configuration.
\* Once the compute request is issued the closure reads neither again.
NoCall == [op |-> "none", name |-> Null, cfg |-> Null]

\* values of the history variable
OtherEvent == [kind |-> "other", stage |-> 0, arg |-> Null]

\* a control of stage n's configuration dialog: "configure", "edit", "save"
\* or "cancel"
ConfigEvent(kind, n) == [kind |-> kind, stage |-> n, arg |-> Null]

\* a press of the download control of stage n's output; arg is the name put
\* in the opened URL, null when nothing was opened
DownloadEvent(n, opened) == [kind |-> "download", stage |-> n, arg |-> opened]

RunEvent(n) == [kind |-> "run", stage |-> n, arg |-> Null]

ResolvedEvent(n, res) == [kind |-> "resolved", stage |-> n, arg |-> Some(res)]

RejectedEvent(n, err) == [kind |-> "rejected", stage |-> n, arg |-> Some(err)]

-----------------------------------------------------------------------------
(* Derived values of a render *)

Status(loading, result, upstream) ==
    IF loading THEN "running"
    ELSE IF result # Null THEN "done"
    ELSE IF upstream # Null THEN "ready"
    ELSE "waiting"

step1Status ==
    IF step1Loading THEN "running"
    ELSE IF preprocessResult # Null THEN "done"
    ELSE IF file # Null THEN "ready" ELSE "ready"

step2Status == Status(step2Loading, clusterResult, preprocessResult)

step3Status == Status(step3Loading, keywordsResult, clusterResult)

processedFilename ==
    IF file # Null THEN <<"processed_">> \o file[1].name ELSE Null

fallbackClusteredFilename ==
    IF file # Null THEN <<"clustered_">> \o file[1].name ELSE Null

fallbackKeywordsFilename ==
    IF file # Null THEN <<"keywords_">> \o file[1].name ELSE Null

\* mutant of OrElse: the second operand is preferred
OrElse_PrefersSecond(a, b) == IF b # Null THEN b ELSE a

\* a || b on names
OrElse(a, b) == IF a # Null THEN a ELSE b

\* mutant of RunButtonDisabled: the button stays enabled while the stage runs
RunButtonDisabled_IgnoresRunning(runDisabled, status) ==
    runDisabled \/ status = "waiting"

\* the disabled attribute of the run button
RunButtonDisabled(runDisabled, status) ==
    runDisabled \/ status = "running" \/ status = "waiting"

IsSep(c) == c = "/" \/ c = "\\"

\* fullPath.split(/[/\\]/).pop(): the characters after the last separator
RECURSIVE LastSegment(_)
LastSegment(p) ==
    IF p = <<>> THEN <<>>
    ELSE IF IsSep(p[Len(p)]) THEN <<>>
    ELSE LastSegment(SubSeq(p, 1, Len(p) - 1)) \o <<p[Len(p)]>>

\* mutant of RealNameAfter: splits on the forward slash only
RECURSIVE LastSegment_SlashOnly(_)
LastSegment_SlashOnly(p) ==
    IF p = <<>> THEN <<>>
    ELSE IF p[Len(p)] = "/" THEN <<>>
    ELSE LastSegment_SlashOnly(SubSeq(p, 1, Len(p) - 1)) \o <<p[Len(p)]>>

RealNameAfter_SlashOnly(old, res) ==
    IF res.output_file # <<>> /\ LastSegment_SlashOnly(res.output_file) # <<>>
    THEN LastSegment_SlashOnly(res.output_file)
    ELSE old

\* the name the success branch stores: unchanged unless the response carries
\* an output_file whose last segment is not empty
RealNameAfter(old, res) ==
    IF res.output_file # <<>> /\ LastSegment(res.output_file) # <<>>
    THEN LastSegment(res.output_file)
    ELSE old

\* err instanceof Error ? err.message : fallback  (the fallback and progress
\* texts of the source are rendered in English below)
MessageOf(err, fallback) == IF err.isError THEN err.message ELSE fallback

-----------------------------------------------------------------------------
(* The report: reportData, a memo of keywordsResult.  A row of the stage 3
   response is [Cluster, LLM_Keywords, Count] with Count null when the field
   is absent; keywords are sequences of characters.  A ratio is kept exact as
   the pair [num, den] with den > 0. *)

\* number of rows of a generated row list
MaxRows == 3

\* largest Count value of a generated row
MaxCount == 2

ClusterIds == { -1, 0, 1 }

ShortKeyword == <<"k">>

LongKeyword == <<"k", "e", "y", "w", "o", "r", "d", "s", "9">>

\* the keyword the service reports for a cluster: one short enough to be
\* its own label and one that is longer
KeywordOf(c) == IF c = 1 THEN LongKeyword ELSE ShortKeyword

Counts == { Null } \cup { Some(c) : c \in 0..MaxCount }

Rows ==
    { [Cluster |-> c, LLM_Keywords |-> KeywordOf(c), Count |-> n] :
        c \in ClusterIds, n \in Counts }

\* the row list of the worked example: counts 50, 30 and 20
ScenarioRows ==
    << [Cluster |-> 0, LLM_Keywords |-> ShortKeyword, Count |-> Some(50)],
       [Cluster |-> 1, LLM_Keywords |-> LongKeyword, Count |-> Some(30)],
       [Cluster |-> -1, LLM_Keywords |-> ShortKeyword, Count |-> Some(20)] >>

\* a row list with more valid rows than the chart shows: eleven valid rows
\* of two clusters, with equal counts among them
ManyRows ==
    [ i \in 1..11 |->
        [Cluster |-> i % 2, LLM_Keywords |-> KeywordOf(i % 2), Count |-> Some(i % 3)] ]

RowLists ==
    UNION { [1..n -> Rows] : n \in 0..MaxRows } \cup { ScenarioRows, ManyRows }

\* the keyword of a row that has no LLM_Keywords field: item.LLM_Keywords is
\* undefined, which is no sequence of characters
Undefined == <<"undefined">>

\* rows as the untyped mapping (item: any) admits them: a row may lack its
\* keyword as well as its count
AnyRows ==
    Rows \cup { [Cluster |-> c, LLM_Keywords |-> Undefined, Count |-> n] :
                  c \in ClusterIds, n \in { Null, Some(MaxCount) } }

AnyRowLists == UNION { [1..n -> AnyRows] : n \in 0..(MaxRows - 1) }

AggregateResponses ==
    { [message |-> "ok", output_file |-> <<>>, result |-> Some(r)] : r \in AnyRowLists }

\* stage 3 responses with every generated row list, and one without a list
ReportResponses ==
    { [message |-> "ok", output_file |-> <<>>, result |-> Some(r)] : r \in RowLists }
       \cup { [message |-> "ok", output_file |-> <<>>, result |-> Null] }

\* item.Count ? Number(item.Count) : 1, for an absent or numeric Count
CountOf(item) ==
    IF item.Count # Null /\ item.Count[1] # 0 THEN item.Count[1] ELSE 1

analysisList(rawData) ==
    [ i \in 1..Len(rawData) |->
        [ clusterId |-> rawData[i].Cluster,
          keyword |-> rawData[i].LLM_Keywords,
          count |-> CountOf(rawData[i]) ] ]

\* list.reduce((sum, item) => sum + item.count, 0)
RECURSIVE SumCount(_)
SumCount(list) ==
    IF list = <<>> THEN 0
    ELSE SumCount(SubSeq(list, 1, Len(list) - 1)) + list[Len(list)].count

\* totalRecords > 0 ? a / totalRecords : 0
Ratio(a, totalRecords) ==
    IF totalRecords > 0 THEN [num |-> a, den |-> totalRecords] ELSE [num |-> 0, den |-> 1]

processedList(list, totalRecords) ==
    [ i \in 1..Len(list) |->
        [ clusterId |-> list[i].clusterId,
          keyword |-> list[i].keyword,
          count |-> list[i].count,
          percentage |-> Ratio(list[i].count, totalRecords) ] ]

\* mutant of IsValid: noise entries pass the filter
IsValid_KeepsNoise(i) == TRUE

IsValid(i) == i.clusterId # -1

IsNoise(i) == i.clusterId = -1

\* mutant of noiseCluster: the last noise entry is taken
noiseCluster_Last(list) ==
    LET found == SelectSeq(list, IsNoise) IN
    IF found = <<>> THEN Null ELSE Some(found[Len(found)])

\* list.find(i => i.clusterId === -1): the first noise entry, or null
noiseCluster(list) ==
    LET found == SelectSeq(list, IsNoise) IN
    IF found = <<>> THEN Null ELSE Some(found[1])

\* mutant of InsertByCount: the order is ascending
RECURSIVE InsertByCount_Ascending(_, _)
InsertByCount_Ascending(sorted, e) ==
    IF sorted = <<>> THEN <<e>>
    ELSE IF sorted[Len(sorted)].count <= e.count THEN Append(sorted, e)
    ELSE Append(InsertByCount_Ascending(SubSeq(sorted, 1, Len(sorted) - 1), e),
                sorted[Len(sorted)])

\* one insertion of the stable descending sort: e goes after every entry
\* whose count is not smaller
RECURSIVE InsertByCount(_, _)
InsertByCount(sorted, e) ==
    IF sorted = <<>> THEN <<e>>
    ELSE IF sorted[Len(sorted)].count >= e.count THEN Append(sorted, e)
    ELSE Append(InsertByCount(SubSeq(sorted, 1, Len(sorted) - 1), e), sorted[Len(sorted)])

\* list.sort((a, b) => b.count - a.count): stable, by count descending
RECURSIVE SortByCountDesc(_)
SortByCountDesc(list) ==
    IF list = <<>> THEN <<>>
    ELSE InsertByCount(SortByCountDesc(SubSeq(list, 1, Len(list) - 1)), list[Len(list)])

\* the filtered and then sorted valid entries
validClusters(list) == SortByCountDesc(SelectSeq(list, IsValid))

Ellipsis == <<".", ".", ".">>

\* keyword.length > 8 ? keyword.substring(0, 8) + '...' : keyword
LabelOf(keyword) ==
    IF Len(keyword) > 8 THEN SubSeq(keyword, 1, 8) \o Ellipsis ELSE keyword

\* mutant of top10Of: every valid entry is charted
top10Of_TakesAll(valid) ==
    [ i \in 1..Len(valid) |->
        [ name |-> LabelOf(valid[i].keyword),
          fullName |-> valid[i].keyword,
          count |-> valid[i].count ] ]

top10Of(valid) ==
    [ i \in 1..(IF Len(valid) < 10 THEN Len(valid) ELSE 10) |->
        [ name |-> LabelOf(valid[i].keyword),
          fullName |-> valid[i].keyword,
          count |-> valid[i].count ] ]

\* the exception of reading .length of undefined
TypeError == [name |-> "TypeError"]

\* item.keyword.length throws for a charted entry without a keyword
top10Throws(valid) ==
    \E i \in 1..(IF Len(valid) < 10 THEN Len(valid) ELSE 10) :
        valid[i].keyword = Undefined

NoiseLabel == <<"n", "o", "i", "s", "e">>

\* mutant of fullDisplayListOf: the noise entry is not appended
fullDisplayListOf_DropsNoise(valid, noise) == valid

fullDisplayListOf(valid, noise) ==
    IF noise # Null
    THEN Append(valid, [noise[1] EXCEPT !.keyword = NoiseLabel])
    ELSE valid

Report(rawData) ==
    LET list == analysisList(rawData)
        totalRecords == SumCount(list)
        processed == processedList(list, totalRecords)
        valid == validClusters(processed)
        noise == noiseCluster(processed)
        validCount == SumCount(valid)
    IN  IF top10Throws(valid) THEN TypeError
        ELSE
        [ totalRecords |-> totalRecords,
          topicCount |-> Len(valid),
          coverage |-> Ratio(validCount, totalRecords),
          noiseCount |-> IF noise # Null THEN noise[1].count ELSE 0,
          top10 |-> top10Of(valid),
          fullDisplayList |-> fullDisplayListOf(valid, noise) ]

\* useMemo(..., [keywordsResult]): null without a stage 3 result or row list,
\* and the exception when the computation throws
reportData ==
    IF keywordsResult = Null \/ keywordsResult[1].result = Null
    THEN Null
    ELSE Some(Report(keywordsResult[1].result[1]))

-----------------------------------------------------------------------------
Init ==
    /\ file = Null
    /\ preprocessResult = Null
    /\ clusterResult = Null
    /\ keywordsResult = Null
    /\ realClusteredFilename = Null
    /\ realKeywordsFilename = Null
    /\ step1Loading = FALSE /\ step1Progress = 0 /\ step1ProgressText = ""
    /\ step2Loading = FALSE /\ step2Progress = 0 /\ step2ProgressText = ""
    /\ step3Loading = FALSE /\ step3Progress = 0 /\ step3ProgressText = ""
    /\ error = Null
    /\ llmDialogOpen = FALSE
    /\ llmCfg = [apiKey |-> DefaultApiKey, baseUrl |-> DefaultBaseUrl]
    /\ tempLlm = [apiKey |-> DefaultApiKey, baseUrl |-> DefaultBaseUrl]
    /\ cleanDialogOpen = FALSE /\ cleanCfg = DefaultCleanCfg /\ tempClean = DefaultCleanCfg
    /\ clusterDialogOpen = FALSE
    /\ clusterCfg = DefaultClusterCfg /\ tempCluster = DefaultClusterCfg
    /\ call1 = NoCall /\ call2 = NoCall /\ call3 = NoCall
    /\ currentPage = "home"
    /\ pgFile = Null /\ pgApiKey = DefaultApiKey
    /\ pgLoading = FALSE /\ pgProgress = 0 /\ pgProgressText = ""
    /\ pgResult = Null /\ pgError = Null
    /\ pgCall = "none"
    /\ pgLoadingState = FALSE /\ pgStateResult = Null
    /\ rpFile = Null /\ rpData = <<>> /\ rpColumns = {}
    /\ rpFilterNoise = FALSE /\ rpError = Null /\ rpReads = <<>>
    /\ lastEvent = OtherEvent

-----------------------------------------------------------------------------
(* File selector: FileUpload with onFileChange = setFile.  With a file shown
   the only control is the remove button; without one, a file can be chosen
   or dropped. *)

SelectFile(f) ==
    /\ file = Null
    /\ file' = Some(f)
    /\ lastEvent' = OtherEvent
    /\ UNCHANGED << standaloneVars, resultsVars >>
    /\ UNCHANGED << preprocessResult, clusterResult, keywordsResult,
                    realClusteredFilename, realKeywordsFilename,
                    step1Loading, step1Progress, step1ProgressText,
                    step2Loading, step2Progress, step2ProgressText,
                    step3Loading, step3Progress, step3ProgressText,
                    error, call1, call2, call3, configVars >>

RemoveFile ==
    /\ file # Null
    /\ file' = Null
    /\ lastEvent' = OtherEvent
    /\ UNCHANGED << standaloneVars, resultsVars >>
    /\ UNCHANGED << preprocessResult, clusterResult, keywordsResult,
                    realClusteredFilename, realKeywordsFilename,
                    step1Loading, step1Progress, step1ProgressText,
                    step2Loading, step2Progress, step2ProgressText,
                    step3Loading, step3Progress, step3ProgressText,
                    error, call1, call2, call3, configVars >>

-----------------------------------------------------------------------------
(* Stage 1: handleStep1 *)

\* mutant of handleStep1: stage 3's result and canonical name are not cleared
handleStep1_KeepsKeywords ==
    IF file = Null
    THEN UNCHANGED pipelineVars
    ELSE /\ step1Loading' = TRUE
         /\ error' = Null
         /\ preprocessResult' = Null
         /\ clusterResult' = Null
         /\ realClusteredFilename' = Null
         /\ step1Progress' = 15
         /\ step1ProgressText' = "uploading"
         /\ call1' = [op |-> "timer", name |-> file[1].name, cfg |-> Some(cleanCfg)]
         /\ UNCHANGED << file, keywordsResult, realKeywordsFilename,
                         step2Loading, step2Progress, step2ProgressText,
                         step3Loading, step3Progress, step3ProgressText,
                         call2, call3 >>

\* mutant of handleStep1: stage 1's own result is not cleared
handleStep1_KeepsOwnResult ==
    IF file = Null
    THEN UNCHANGED pipelineVars
    ELSE /\ step1Loading' = TRUE
         /\ error' = Null
         /\ clusterResult' = Null
         /\ keywordsResult' = Null
         /\ realClusteredFilename' = Null
         /\ realKeywordsFilename' = Null
         /\ step1Progress' = 15
         /\ step1ProgressText' = "uploading"
         /\ call1' = [op |-> "timer", name |-> file[1].name, cfg |-> Some(cleanCfg)]
         /\ UNCHANGED << file, preprocessResult,
                         step2Loading, step2Progress, step2ProgressText,
                         step3Loading, step3Progress, step3ProgressText,
                         call2, call3 >>

\* the handler from its entry to its first await
handleStep1 ==
    IF file = Null
    THEN UNCHANGED pipelineVars
    ELSE /\ step1Loading' = TRUE
         /\ error' = Null
         /\ preprocessResult' = Null
         /\ clusterResult' = Null
         /\ keywordsResult' = Null
         /\ realClusteredFilename' = Null
         /\ realKeywordsFilename' = Null
         /\ step1Progress' = 15
         /\ step1ProgressText' = "uploading"
         /\ call1' = [op |-> "timer", name |-> file[1].name, cfg |-> Some(cleanCfg)]
         /\ UNCHANGED << file, step2Loading, step2Progress, step2ProgressText,
                         step3Loading, step3Progress, step3ProgressText,
                         call2, call3 >>

\* a press of stage 1's run control (runDisabled = !file)
RunStep1 ==
    /\ lastEvent' = RunEvent(1)
    /\ UNCHANGED << standaloneVars, resultsVars >>
    /\ UNCHANGED configVars
    /\ IF RunButtonDisabled(file = Null, step1Status)
       THEN UNCHANGED pipelineVars
       ELSE handleStep1

\* the 300 ms timer fires: second checkpoint, preprocessFile is called
Step1TimerFired ==
    /\ call1.op = "timer"
    /\ step1Progress' = 40
    /\ step1ProgressText' = "extracting"
    /\ call1' = [op |-> "preprocess", name |-> Null, cfg |-> Null]
    /\ lastEvent' = OtherEvent
    /\ UNCHANGED << standaloneVars, resultsVars >>
    /\ UNCHANGED << file, preprocessResult, clusterResult, keywordsResult,
                    realClusteredFilename, realKeywordsFilename,
                    step1Loading,
                    step2Loading, step2Progress, step2ProgressText,
                    step3Loading, step3Progress, step3ProgressText,
                    error, call2, call3, configVars >>

\* preprocessFile resolves with res
Step1Resolved(res) ==
    /\ call1.op = "preprocess"
    /\ step1Progress' = 100
    /\ step1ProgressText' = "done"
    /\ preprocessResult' = Some(res)
    /\ step1Loading' = FALSE
    /\ call1' = NoCall
    /\ lastEvent' = ResolvedEvent(1, res)
    /\ UNCHANGED << standaloneVars, resultsVars >>
    /\ UNCHANGED << file, clusterResult, keywordsResult,
                    realClusteredFilename, realKeywordsFilename,
                    step2Loading, step2Progress, step2ProgressText,
                    step3Loading, step3Progress, step3ProgressText,
                    error, call2, call3, configVars >>

\* preprocessFile rejects with err: catch and finally
Step1Rejected(err) ==
    /\ call1.op = "preprocess"
    /\ error' = Some(MessageOf(err, "preprocess failed"))
    /\ step1Loading' = FALSE
    /\ call1' = NoCall
    /\ lastEvent' = RejectedEvent(1, err)
    /\ UNCHANGED << standaloneVars, resultsVars >>
    /\ UNCHANGED << file, preprocessResult, clusterResult, keywordsResult,
                    realClusteredFilename, realKeywordsFilename,
                    step1Progress, step1ProgressText,
                    step2Loading, step2Progress, step2ProgressText,
                    step3Loading, step3Progress, step3ProgressText,
                    call2, call3, configVars >>

-----------------------------------------------------------------------------
(* Stage 2: handleStep2 *)

\* mutant of handleStep2: stage 1's result is cleared as well
handleStep2_ClearsUpstream ==
    IF processedFilename = Null
    THEN UNCHANGED pipelineVars
    ELSE /\ step2Loading' = TRUE
         /\ error' = Null
         /\ preprocessResult' = Null
         /\ clusterResult' = Null
         /\ keywordsResult' = Null
         /\ realKeywordsFilename' = Null
         /\ step2Progress' = 10
         /\ step2ProgressText' = "downloading"
         /\ call2' = [op |-> "download", name |-> processedFilename, cfg |-> Some(clusterCfg)]
         /\ UNCHANGED << file, realClusteredFilename,
                         step1Loading, step1Progress, step1ProgressText,
                         step3Loading, step3Progress, step3ProgressText,
                         call1, call3 >>

\* mutant of handleStep2: the first progress checkpoint is not set
handleStep2_KeepsProgress ==
    IF processedFilename = Null
    THEN UNCHANGED pipelineVars
    ELSE /\ step2Loading' = TRUE
         /\ error' = Null
         /\ clusterResult' = Null
         /\ keywordsResult' = Null
         /\ realKeywordsFilename' = Null
         /\ step2ProgressText' = "downloading"
         /\ call2' = [op |-> "download", name |-> processedFilename, cfg |-> Some(clusterCfg)]
         /\ UNCHANGED << file, preprocessResult, realClusteredFilename,
                         step1Loading, step1Progress, step1ProgressText,
                         step2Progress,
                         step3Loading, step3Progress, step3ProgressText,
                         call1, call3 >>

\* the handler from its entry to its first await
handleStep2 ==
    IF processedFilename = Null
    THEN UNCHANGED pipelineVars
    ELSE /\ step2Loading' = TRUE
         /\ error' = Null
         /\ clusterResult' = Null
         /\ keywordsResult' = Null
         /\ realKeywordsFilename' = Null
         /\ step2Progress' = 10
         /\ step2ProgressText' = "downloading"
         /\ call2' = [op |-> "download", name |-> processedFilename, cfg |-> Some(clusterCfg)]
         /\ UNCHANGED << file, preprocessResult, realClusteredFilename,
                         step1Loading, step1Progress, step1ProgressText,
                         step3Loading, step3Progress, step3ProgressText,
                         call1, call3 >>

\* a press of stage 2's run control (runDisabled defaults to false)
RunStep2 ==
    /\ lastEvent' = RunEvent(2)
    /\ UNCHANGED << standaloneVars, resultsVars >>
    /\ UNCHANGED configVars
    /\ IF RunButtonDisabled(FALSE, step2Status)
       THEN UNCHANGED pipelineVars
       ELSE handleStep2

\* downloadFile resolves: second checkpoint, clusterData is called
Step2Downloaded ==
    /\ call2.op = "download"
    /\ step2Progress' = 30
    /\ step2ProgressText' = "clustering"
    /\ call2' = [op |-> "cluster", name |-> Null, cfg |-> Null]
    /\ lastEvent' = OtherEvent
    /\ UNCHANGED << standaloneVars, resultsVars >>
    /\ UNCHANGED << file, preprocessResult, clusterResult, keywordsResult,
                    realClusteredFilename, realKeywordsFilename,
                    step1Loading, step1Progress, step1ProgressText,
                    step2Loading,
                    step3Loading, step3Progress, step3ProgressText,
                    error, call1, call3, configVars >>

\* clusterData resolves with res
Step2Resolved(res) ==
    /\ call2.op = "cluster"
    /\ step2Progress' = 100
    /\ step2ProgressText' = "done"
    /\ realClusteredFilename' = RealNameAfter(realClusteredFilename, res)
    /\ clusterResult' = Some(res)
    /\ step2Loading' = FALSE
    /\ call2' = NoCall
    /\ lastEvent' = ResolvedEvent(2, res)
    /\ UNCHANGED << standaloneVars, resultsVars >>
    /\ UNCHANGED << file, preprocessResult, keywordsResult, realKeywordsFilename,
                    step1Loading, step1Progress, step1ProgressText,
                    step3Loading, step3Progress, step3ProgressText,
                    error, call1, call3, configVars >>

\* downloadFile or clusterData rejects with err: catch and finally
Step2Rejected(err) ==
    /\ \/ call2.op = "download" /\ err \in { DownloadError(r) : r \in ErrorResponses }
       \/ call2.op = "cluster"
            /\ err \in { ApiError(r) : r \in ErrorResponses } \cup { NonError }
    /\ error' = Some(MessageOf(err, "cluster failed"))
    /\ step2Loading' = FALSE
    /\ call2' = NoCall
    /\ lastEvent' = RejectedEvent(2, err)
    /\ UNCHANGED << standaloneVars, resultsVars >>
    /\ UNCHANGED << file, preprocessResult, clusterResult, keywordsResult,
                    realClusteredFilename, realKeywordsFilename,
                    step1Loading, step1Progress, step1ProgressText,
                    step2Progress, step2ProgressText,
                    step3Loading, step3Progress, step3ProgressText,
                    call1, call3, configVars >>

-----------------------------------------------------------------------------
(* Stage 3: handleStep3 *)

LocateError == "cannot find the cluster file, run step 2 again"

\* mutant of handleStep3: the credential guard is missing
handleStep3_NoCredentialGuard ==
    LET targetFilename == OrElse(realClusteredFilename, fallbackClusteredFilename) IN
    IF targetFilename = Null
    THEN /\ error' = Some(LocateError)
         /\ UNCHANGED << file, preprocessResult, clusterResult, keywordsResult,
                         realClusteredFilename, realKeywordsFilename,
                         step1Loading, step1Progress, step1ProgressText,
                         step2Loading, step2Progress, step2ProgressText,
                         step3Loading, step3Progress, step3ProgressText,
                         call1, call2, call3, configVars >>
    ELSE /\ step3Loading' = TRUE
         /\ error' = Null
         /\ keywordsResult' = Null
         /\ step3Progress' = 15
         /\ step3ProgressText' = "downloading"
         /\ call3' = [op |-> "download", name |-> targetFilename, cfg |-> Some(llmCfg)]
         /\ UNCHANGED << file, preprocessResult, clusterResult,
                         realClusteredFilename, realKeywordsFilename,
                         step1Loading, step1Progress, step1ProgressText,
                         step2Loading, step2Progress, step2ProgressText,
                         call1, call2, configVars >>

\* the handler from its entry to its first await
handleStep3 ==
    LET targetFilename == OrElse(realClusteredFilename, fallbackClusteredFilename) IN
    IF targetFilename = Null
    THEN /\ error' = Some(LocateError)
         /\ UNCHANGED << file, preprocessResult, clusterResult, keywordsResult,
                         realClusteredFilename, realKeywordsFilename,
                         step1Loading, step1Progress, step1ProgressText,
                         step2Loading, step2Progress, step2ProgressText,
                         step3Loading, step3Progress, step3ProgressText,
                         call1, call2, call3, configVars >>
    ELSE IF llmCfg.apiKey = ""
    THEN /\ llmDialogOpen' = TRUE
         /\ UNCHANGED << pipelineVars, llmCfg, tempLlm, cleanConfigVars, clusterConfigVars >>
    ELSE /\ step3Loading' = TRUE
         /\ error' = Null
         /\ keywordsResult' = Null
         /\ step3Progress' = 15
         /\ step3ProgressText' = "downloading"
         /\ call3' = [op |-> "download", name |-> targetFilename, cfg |-> Some(llmCfg)]
         /\ UNCHANGED << file, preprocessResult, clusterResult,
                         realClusteredFilename, realKeywordsFilename,
                         step1Loading, step1Progress, step1ProgressText,
                         step2Loading, step2Progress, step2ProgressText,
                         call1, call2, configVars >>

\* a press of stage 3's run control (runDisabled defaults to false)
RunStep3 ==
    /\ lastEvent' = RunEvent(3)
    /\ UNCHANGED << standaloneVars, resultsVars >>
    /\ IF RunButtonDisabled(FALSE, step3Status)
       THEN UNCHANGED << pipelineVars, configVars >>
       ELSE handleStep3

\* downloadFile resolves: second checkpoint, extractKeywords is called
Step3Downloaded ==
    /\ call3.op = "download"
    /\ step3Progress' = 40
    /\ step3ProgressText' = "summarising"
    /\ call3' = [op |-> "extract-keywords", name |-> Null, cfg |-> Null]
    /\ lastEvent' = OtherEvent
    /\ UNCHANGED << standaloneVars, resultsVars >>
    /\ UNCHANGED << file, preprocessResult, clusterResult, keywordsResult,
                    realClusteredFilename, realKeywordsFilename,
                    step1Loading, step1Progress, step1ProgressText,
                    step2Loading, step2Progress, step2ProgressText,
                    step3Loading,
                    error, call1, call2, configVars >>

\* extractKeywords resolves with res
Step3Resolved(res) ==
    /\ call3.op = "extract-keywords"
    /\ step3Progress' = 100
    /\ step3ProgressText' = "done"
    /\ realKeywordsFilename' = RealNameAfter(realKeywordsFilename, res)
    /\ keywordsResult' = Some(res)
    /\ step3Loading' = FALSE
    /\ call3' = NoCall
    /\ lastEvent' = ResolvedEvent(3, res)
    /\ UNCHANGED << standaloneVars, resultsVars >>
    /\ UNCHANGED << file, preprocessResult, clusterResult, realClusteredFilename,
                    step1Loading, step1Progress, step1ProgressText,
                    step2Loading, step2Progress, step2ProgressText,
                    error, call1, call2, configVars >>

\* mutant of Step3Rejected: the finally block does not run
Step3Rejected_KeepsLoading(err) ==
    /\ \/ call3.op = "download" /\ err \in { DownloadError(r) : r \in ErrorResponses }
       \/ call3.op = "extract-keywords"
            /\ err \in { ApiError(r) : r \in ErrorResponses } \cup { NonError }
    /\ error' = Some(MessageOf(err, "LLM call failed"))
    /\ call3' = NoCall
    /\ lastEvent' = RejectedEvent(3, err)
    /\ UNCHANGED << standaloneVars, resultsVars >>
    /\ UNCHANGED << file, preprocessResult, clusterResult, keywordsResult,
                    realClusteredFilename, realKeywordsFilename,
                    step1Loading, step1Progress, step1ProgressText,
                    step2Loading, step2Progress, step2ProgressText,
                    step3Loading, step3Progress, step3ProgressText,
                    call1, call2, configVars >>

\* downloadFile or extractKeywords rejects with err: catch and finally
Step3Rejected(err) ==
    /\ \/ call3.op = "download" /\ err \in { DownloadError(r) : r \in ErrorResponses }
       \/ call3.op = "extract-keywords"
            /\ err \in { ApiError(r) : r \in ErrorResponses } \cup { NonError }
    /\ error' = Some(MessageOf(err, "LLM call failed"))
    /\ step3Loading' = FALSE
    /\ call3' = NoCall
    /\ lastEvent' = RejectedEvent(3, err)
    /\ UNCHANGED << standaloneVars, resultsVars >>
    /\ UNCHANGED << file, preprocessResult, clusterResult, keywordsResult,
                    realClusteredFilename, realKeywordsFilename,
                    step1Loading, step1Progress, step1ProgressText,
                    step2Loading, step2Progress, step2ProgressText,
                    step3Progress, step3ProgressText,
                    call1, call2, configVars >>

-----------------------------------------------------------------------------
(* Download controls of the dashboard tabs: each is rendered when its tab has
   content and calls handleDownloadResult with the name computed in that
   render. *)

\* if (!filename) return; window.open(.../api/download/<filename>)
handleDownloadResult(n, filename) ==
    /\ lastEvent' = DownloadEvent(n, IF filename = Null THEN Null ELSE Some(filename))
    /\ UNCHANGED << standaloneVars, resultsVars >>
    /\ UNCHANGED << pipelineVars, configVars >>

DownloadProcessed ==
    /\ preprocessResult # Null
    /\ handleDownloadResult(1, processedFilename)

DownloadClustered ==
    /\ clusterResult # Null
    /\ handleDownloadResult(2, OrElse(realClusteredFilename, fallbackClusteredFilename))

DownloadKeywords ==
    /\ reportData # Null
    /\ handleDownloadResult(3, OrElse(realKeywordsFilename, fallbackKeywordsFilename))

-----------------------------------------------------------------------------
(* LLM configuration dialog *)

\* the configure control of stage 3: onConfigure
ConfigureLlm ==
    /\ tempLlm' = llmCfg
    /\ llmDialogOpen' = TRUE
    /\ lastEvent' = ConfigEvent("configure", 3)
    /\ UNCHANGED << standaloneVars, resultsVars >>
    /\ UNCHANGED << pipelineVars, llmCfg, cleanConfigVars, clusterConfigVars >>

\* the API key input of the open dialog
EditLlmApiKey(v) ==
    /\ llmDialogOpen
    /\ tempLlm' = [tempLlm EXCEPT !.apiKey = v]
    /\ lastEvent' = ConfigEvent("edit", 3)
    /\ UNCHANGED << standaloneVars, resultsVars >>
    /\ UNCHANGED << pipelineVars, llmCfg, llmDialogOpen, cleanConfigVars, clusterConfigVars >>

\* the base URL input of the open dialog
EditLlmBaseUrl(v) ==
    /\ llmDialogOpen
    /\ tempLlm' = [tempLlm EXCEPT !.baseUrl = v]
    /\ lastEvent' = ConfigEvent("edit", 3)
    /\ UNCHANGED << standaloneVars, resultsVars >>
    /\ UNCHANGED << pipelineVars, llmCfg, llmDialogOpen, cleanConfigVars, clusterConfigVars >>

\* the save button: onSave(); onOpenChange(false)
SaveLlm ==
    /\ llmDialogOpen
    /\ llmCfg' = tempLlm
    /\ llmDialogOpen' = FALSE
    /\ lastEvent' = ConfigEvent("save", 3)
    /\ UNCHANGED << standaloneVars, resultsVars >>
    /\ UNCHANGED << pipelineVars, tempLlm, cleanConfigVars, clusterConfigVars >>

\* the cancel button (or dismissing the dialog): onOpenChange(false)
CancelLlm ==
    /\ llmDialogOpen
    /\ llmDialogOpen' = FALSE
    /\ lastEvent' = ConfigEvent("cancel", 3)
    /\ UNCHANGED << standaloneVars, resultsVars >>
    /\ UNCHANGED << pipelineVars, llmCfg, tempLlm, cleanConfigVars, clusterConfigVars >>

(* Clean configuration dialog *)

\* the configure control of stage 1: onConfigure
ConfigureClean ==
    /\ tempClean' = cleanCfg
    /\ cleanDialogOpen' = TRUE
    /\ lastEvent' = ConfigEvent("configure", 1)
    /\ UNCHANGED << standaloneVars, resultsVars >>
    /\ UNCHANGED << pipelineVars, llmDialogOpen, llmCfg, tempLlm, cleanCfg,
                    clusterConfigVars >>

\* the extractor select of the open dialog
EditCleanExtractor(v) ==
    /\ cleanDialogOpen
    /\ tempClean' = [tempClean EXCEPT !.extractor = v]
    /\ lastEvent' = ConfigEvent("edit", 1)
    /\ UNCHANGED << standaloneVars, resultsVars >>
    /\ UNCHANGED << pipelineVars, llmDialogOpen, llmCfg, tempLlm, cleanCfg,
                    cleanDialogOpen, clusterConfigVars >>

\* the column input of the open dialog
EditCleanColumn(v) ==
    /\ cleanDialogOpen
    /\ tempClean' = [tempClean EXCEPT !.column = v]
    /\ lastEvent' = ConfigEvent("edit", 1)
    /\ UNCHANGED << standaloneVars, resultsVars >>
    /\ UNCHANGED << pipelineVars, llmDialogOpen, llmCfg, tempLlm, cleanCfg,
                    cleanDialogOpen, clusterConfigVars >>

\* the redaction switch of the open dialog
EditCleanUseNer(v) ==
    /\ cleanDialogOpen
    /\ tempClean' = [tempClean EXCEPT !.useNer = v]
    /\ lastEvent' = ConfigEvent("edit", 1)
    /\ UNCHANGED << standaloneVars, resultsVars >>
    /\ UNCHANGED << pipelineVars, llmDialogOpen, llmCfg, tempLlm, cleanCfg,
                    cleanDialogOpen, clusterConfigVars >>

\* mutant of SaveClean: only the extractor of the draft is committed
SaveClean_ExtractorOnly ==
    /\ cleanDialogOpen
    /\ cleanCfg' = [cleanCfg EXCEPT !.extractor = tempClean.extractor]
    /\ cleanDialogOpen' = FALSE
    /\ lastEvent' = ConfigEvent("save", 1)
    /\ UNCHANGED << standaloneVars, resultsVars >>
    /\ UNCHANGED << pipelineVars, llmDialogOpen, llmCfg, tempLlm, tempClean,
                    clusterConfigVars >>

\* the save button: onSave(); onOpenChange(false)
SaveClean ==
    /\ cleanDialogOpen
    /\ cleanCfg' = tempClean
    /\ cleanDialogOpen' = FALSE
    /\ lastEvent' = ConfigEvent("save", 1)
    /\ UNCHANGED << standaloneVars, resultsVars >>
    /\ UNCHANGED << pipelineVars, llmDialogOpen, llmCfg, tempLlm, tempClean,
                    clusterConfigVars >>

\* the cancel button (or dismissing the dialog): onOpenChange(false)
CancelClean ==
    /\ cleanDialogOpen
    /\ cleanDialogOpen' = FALSE
    /\ lastEvent' = ConfigEvent("cancel", 1)
    /\ UNCHANGED << standaloneVars, resultsVars >>
    /\ UNCHANGED << pipelineVars, llmDialogOpen, llmCfg, tempLlm, cleanCfg, tempClean,
                    clusterConfigVars >>

(* Cluster configuration dialog *)

\* the configure control of stage 2: onConfigure
ConfigureCluster ==
    /\ tempCluster' = clusterCfg
    /\ clusterDialogOpen' = TRUE
    /\ lastEvent' = ConfigEvent("configure", 2)
    /\ UNCHANGED << standaloneVars, resultsVars >>
    /\ UNCHANGED << pipelineVars, llmDialogOpen, llmCfg, tempLlm, cleanConfigVars,
                    clusterCfg >>

\* the n_neighbors slider of the open dialog
EditClusterNeighbors(v) ==
    /\ clusterDialogOpen
    /\ tempCluster' = [tempCluster EXCEPT !.nNeighbors = v]
    /\ lastEvent' = ConfigEvent("edit", 2)
    /\ UNCHANGED << standaloneVars, resultsVars >>
    /\ UNCHANGED << pipelineVars, llmDialogOpen, llmCfg, tempLlm, cleanConfigVars,
                    clusterCfg, clusterDialogOpen >>

\* the min_cluster slider of the open dialog
EditClusterMinCluster(v) ==
    /\ clusterDialogOpen
    /\ tempCluster' = [tempCluster EXCEPT !.minCluster = v]
    /\ lastEvent' = ConfigEvent("edit", 2)
    /\ UNCHANGED << standaloneVars, resultsVars >>
    /\ UNCHANGED << pipelineVars, llmDialogOpen, llmCfg, tempLlm, cleanConfigVars,
                    clusterCfg, clusterDialogOpen >>

\* the keyword count input of the open dialog
EditClusterTopN(v) ==
    /\ clusterDialogOpen
    /\ tempCluster' = [tempCluster EXCEPT !.topN = v]
    /\ lastEvent' = ConfigEvent("edit", 2)
    /\ UNCHANGED << standaloneVars, resultsVars >>
    /\ UNCHANGED << pipelineVars, llmDialogOpen, llmCfg, tempLlm, cleanConfigVars,
                    clusterCfg, clusterDialogOpen >>

\* the save button: onSave(); onOpenChange(false)
SaveCluster ==
    /\ clusterDialogOpen
    /\ clusterCfg' = tempCluster
    /\ clusterDialogOpen' = FALSE
    /\ lastEvent' = ConfigEvent("save", 2)
    /\ UNCHANGED << standaloneVars, resultsVars >>
    /\ UNCHANGED << pipelineVars, llmDialogOpen, llmCfg, tempLlm, cleanConfigVars,
                    tempCluster >>

\* the cancel button (or dismissing the dialog): onOpenChange(false)
CancelCluster ==
    /\ clusterDialogOpen
    /\ clusterDialogOpen' = FALSE
    /\ lastEvent' = ConfigEvent("cancel", 2)
    /\ UNCHANGED << standaloneVars, resultsVars >>
    /\ UNCHANGED << pipelineVars, llmDialogOpen, llmCfg, tempLlm, cleanConfigVars,
                    clusterCfg, tempCluster >>

-----------------------------------------------------------------------------
Next ==
    \/ \E f \in Files : SelectFile(f)
    \/ RemoveFile
    \/ RunStep1
    \/ Step1TimerFired
    \/ \E res \in PreprocessResponses : Step1Resolved(res)
    \/ \E err \in Failures : Step1Rejected(err)
    \/ RunStep2
    \/ Step2Downloaded
    \/ \E res \in ClusterResponses : Step2Resolved(res)
    \/ \E err \in Failures \cup DownloadFailures : Step2Rejected(err)
    \/ RunStep3
    \/ Step3Downloaded
    \/ \E res \in KeywordsResponses : Step3Resolved(res)
    \/ \E err \in Failures \cup DownloadFailures : Step3Rejected(err)
    \/ DownloadProcessed
    \/ DownloadClustered
    \/ DownloadKeywords
    \/ ConfigureLlm
    \/ \E v \in ApiKeys : EditLlmApiKey(v)
    \/ \E v \in BaseUrls : EditLlmBaseUrl(v)
    \/ SaveLlm
    \/ CancelLlm

Spec == Init /\ [][Next]_vars

-----------------------------------------------------------------------------
(* The standalone pages ClusterPage and KeywordsPage.  Page (app/page.tsx)
   mounts one page at a time; a page that is mounted starts from its initial
   state and the continuation of a call issued by an unmounted page has no
   effect.  The request parameters no handler branches on (column names,
   clustering parameters, base URL) are left out. *)

StandalonePages == { "cluster", "keywords" }

Pages == { "home" } \cup StandalonePages

LoadStateResponses == { [message |-> "ok"] }

PageDownloadEvent(opened) == [kind |-> "page-download", stage |-> 0, arg |-> opened]

\* output_file.split("/").pop(): the characters after the last forward slash
RECURSIVE SlashSegment(_)
SlashSegment(path) ==
    IF path = <<>> THEN <<>>
    ELSE IF path[Len(path)] = "/" THEN <<>>
    ELSE SlashSegment(SubSeq(path, 1, Len(path) - 1)) \o <<path[Len(path)]>>

\* the sidebar: setCurrentPage(page) mounts another page
Navigate(page) ==
    /\ page # currentPage
    /\ currentPage' = page
    /\ pgFile' = Null /\ pgApiKey' = DefaultApiKey
    /\ pgLoading' = FALSE /\ pgProgress' = 0 /\ pgProgressText' = ""
    /\ pgResult' = Null /\ pgError' = Null
    /\ pgCall' = "none"
    /\ pgLoadingState' = FALSE /\ pgStateResult' = Null
    /\ lastEvent' = OtherEvent
    /\ UNCHANGED << resultsVars, pipelineVars, configVars >>

\* FileUpload of the mounted standalone page, onFileChange = setFile
PageSelectFile(f) ==
    /\ currentPage \in StandalonePages
    /\ pgFile = Null
    /\ pgFile' = Some(f)
    /\ lastEvent' = OtherEvent
    /\ UNCHANGED << pgLoadingState, pgStateResult >>
    /\ UNCHANGED << resultsVars, pipelineVars, configVars, currentPage, pgApiKey, pgLoading,
                    pgProgress, pgProgressText, pgResult, pgError, pgCall >>

PageRemoveFile ==
    /\ currentPage \in StandalonePages
    /\ pgFile # Null
    /\ pgFile' = Null
    /\ lastEvent' = OtherEvent
    /\ UNCHANGED << pgLoadingState, pgStateResult >>
    /\ UNCHANGED << resultsVars, pipelineVars, configVars, currentPage, pgApiKey, pgLoading,
                    pgProgress, pgProgressText, pgResult, pgError, pgCall >>

\* the API key input of KeywordsPage
SetApiKey(v) ==
    /\ currentPage = "keywords"
    /\ pgApiKey' = v
    /\ lastEvent' = OtherEvent
    /\ UNCHANGED << pgLoadingState, pgStateResult >>
    /\ UNCHANGED << resultsVars, pipelineVars, configVars, currentPage, pgFile, pgLoading,
                    pgProgress, pgProgressText, pgResult, pgError, pgCall >>

\* ClusterPage: the run button (disabled = !file || loading) and the handler
\* up to its first await
handleAnalysis ==
    /\ currentPage = "cluster"
    /\ ~(pgFile = Null \/ pgLoading)
    /\ pgLoading' = TRUE
    /\ pgError' = Null
    /\ pgResult' = Null
    /\ pgProgress' = 15
    /\ pgProgressText' = "uploading"
    /\ pgCall' = "timer"
    /\ lastEvent' = OtherEvent
    /\ UNCHANGED << pgLoadingState, pgStateResult >>
    /\ UNCHANGED << resultsVars, pipelineVars, configVars, currentPage, pgFile, pgApiKey >>

\* the 200 ms timer fires: clusterData is called
AnalysisTimerFired ==
    /\ currentPage = "cluster" /\ pgCall = "timer"
    /\ pgProgress' = 35
    /\ pgProgressText' = "clustering"
    /\ pgCall' = "cluster"
    /\ lastEvent' = OtherEvent
    /\ UNCHANGED << pgLoadingState, pgStateResult >>
    /\ UNCHANGED << resultsVars, pipelineVars, configVars, currentPage, pgFile, pgApiKey,
                    pgLoading, pgResult, pgError >>

AnalysisResolved(res) ==
    /\ currentPage = "cluster" /\ pgCall = "cluster"
    /\ pgProgress' = 100
    /\ pgProgressText' = "done"
    /\ pgResult' = Some(res)
    /\ pgLoading' = FALSE
    /\ pgCall' = "none"
    /\ lastEvent' = OtherEvent
    /\ UNCHANGED << pgLoadingState, pgStateResult >>
    /\ UNCHANGED << resultsVars, pipelineVars, configVars, currentPage, pgFile, pgApiKey, pgError >>

AnalysisRejected(err) ==
    /\ currentPage = "cluster" /\ pgCall = "cluster"
    /\ pgError' = Some(MessageOf(err, "cluster failed"))
    /\ pgLoading' = FALSE
    /\ pgCall' = "none"
    /\ lastEvent' = OtherEvent
    /\ UNCHANGED << pgLoadingState, pgStateResult >>
    /\ UNCHANGED << resultsVars, pipelineVars, configVars, currentPage, pgFile, pgApiKey,
                    pgProgress, pgProgressText, pgResult >>

\* ClusterPage: the load-state button (disabled = loadingState) and the
\* handler up to its await
handleLoadState ==
    /\ currentPage = "cluster"
    /\ ~pgLoadingState
    /\ pgLoadingState' = TRUE
    /\ pgError' = Null
    /\ lastEvent' = OtherEvent
    /\ UNCHANGED << resultsVars, pipelineVars, configVars, currentPage, pgFile, pgApiKey,
                    pgLoading, pgProgress, pgProgressText, pgResult, pgCall,
                    pgStateResult >>

LoadStateResolved(res) ==
    /\ currentPage = "cluster" /\ pgLoadingState
    /\ pgStateResult' = Some(res)
    /\ pgLoadingState' = FALSE
    /\ lastEvent' = OtherEvent
    /\ UNCHANGED << resultsVars, pipelineVars, configVars, currentPage, pgFile, pgApiKey,
                    pgLoading, pgProgress, pgProgressText, pgResult, pgCall,
                    pgError >>

LoadStateRejected(err) ==
    /\ currentPage = "cluster" /\ pgLoadingState
    /\ pgError' = Some(MessageOf(err, "loading the state failed"))
    /\ pgLoadingState' = FALSE
    /\ lastEvent' = OtherEvent
    /\ UNCHANGED << resultsVars, pipelineVars, configVars, currentPage, pgFile, pgApiKey,
                    pgLoading, pgProgress, pgProgressText, pgResult, pgCall,
                    pgStateResult >>

\* KeywordsPage: the run button (disabled = !file || !apiKey || loading) and
\* the handler up to its await
handleExtract ==
    /\ currentPage = "keywords"
    /\ ~(pgFile = Null \/ pgApiKey = "" \/ pgLoading)
    /\ pgLoading' = TRUE
    /\ pgError' = Null
    /\ pgResult' = Null
    /\ pgCall' = "extract-keywords"
    /\ lastEvent' = OtherEvent
    /\ UNCHANGED << pgLoadingState, pgStateResult >>
    /\ UNCHANGED << resultsVars, pipelineVars, configVars, currentPage, pgFile, pgApiKey,
                    pgProgress, pgProgressText >>

ExtractResolved(res) ==
    /\ currentPage = "keywords" /\ pgCall = "extract-keywords"
    /\ pgResult' = Some(res)
    /\ pgLoading' = FALSE
    /\ pgCall' = "none"
    /\ lastEvent' = OtherEvent
    /\ UNCHANGED << pgLoadingState, pgStateResult >>
    /\ UNCHANGED << resultsVars, pipelineVars, configVars, currentPage, pgFile, pgApiKey,
                    pgProgress, pgProgressText, pgError >>

ExtractRejected(err) ==
    /\ currentPage = "keywords" /\ pgCall = "extract-keywords"
    /\ pgError' = Some(MessageOf(err, "extraction failed"))
    /\ pgLoading' = FALSE
    /\ pgCall' = "none"
    /\ lastEvent' = OtherEvent
    /\ UNCHANGED << pgLoadingState, pgStateResult >>
    /\ UNCHANGED << resultsVars, pipelineVars, configVars, currentPage, pgFile, pgApiKey,
                    pgProgress, pgProgressText, pgResult >>

\* handleDownload of either page (the button is rendered when result is set):
\* if (!result?.output_file) return; window.open(.../download/<filename>)
handleDownload ==
    /\ currentPage \in StandalonePages
    /\ pgResult # Null
    /\ lastEvent' = PageDownloadEvent(
                        IF pgResult[1].output_file = <<>> THEN Null
                        ELSE Some(SlashSegment(pgResult[1].output_file)))
    /\ UNCHANGED << resultsVars, pipelineVars, configVars, standaloneVars >>

PagesNext ==
    \/ \E page \in Pages : Navigate(page)
    \/ \E f \in Files : PageSelectFile(f)
    \/ PageRemoveFile
    \/ \E v \in ApiKeys : SetApiKey(v)
    \/ handleAnalysis
    \/ AnalysisTimerFired
    \/ \E res \in ClusterResponses : AnalysisResolved(res)
    \/ \E err \in Failures : AnalysisRejected(err)
    \/ handleLoadState
    \/ \E res \in LoadStateResponses : LoadStateResolved(res)
    \/ \E err \in Failures : LoadStateRejected(err)
    \/ handleExtract
    \/ \E res \in KeywordsResponses : ExtractResolved(res)
    \/ \E err \in Failures : ExtractRejected(err)
    \/ handleDownload

SpecPages == Init /\ [][PagesNext]_vars

-----------------------------------------------------------------------------
(* The report specification: the home page with stages 1 and 2 completed for
   one file and the compute call of stage 3 outstanding; the call resolves
   with any of the generated row lists, the report is read, and stage 3 can
   be run again. *)

ReportInit ==
    /\ file = Some([name |-> <<"a", ".", "x">>])
    /\ preprocessResult = Some([message |-> "ok"])
    /\ clusterResult = Some([message |-> "ok", output_file |-> <<>>])
    /\ keywordsResult = Null
    /\ realClusteredFilename = Null
    /\ realKeywordsFilename = Null
    /\ step1Loading = FALSE /\ step1Progress = 100 /\ step1ProgressText = "done"
    /\ step2Loading = FALSE /\ step2Progress = 100 /\ step2ProgressText = "done"
    /\ step3Loading = TRUE /\ step3Progress = 40 /\ step3ProgressText = "summarising"
    /\ error = Null
    /\ llmDialogOpen = FALSE
    /\ llmCfg = [apiKey |-> DefaultApiKey, baseUrl |-> DefaultBaseUrl]
    /\ tempLlm = [apiKey |-> DefaultApiKey, baseUrl |-> DefaultBaseUrl]
    /\ cleanDialogOpen = FALSE /\ cleanCfg = DefaultCleanCfg /\ tempClean = DefaultCleanCfg
    /\ clusterDialogOpen = FALSE
    /\ clusterCfg = DefaultClusterCfg /\ tempCluster = DefaultClusterCfg
    /\ call1 = NoCall /\ call2 = NoCall
    /\ call3 = [op |-> "extract-keywords", name |-> Null, cfg |-> Null]
    /\ currentPage = "home"
    /\ pgFile = Null /\ pgApiKey = DefaultApiKey
    /\ pgLoading = FALSE /\ pgProgress = 0 /\ pgProgressText = ""
    /\ pgResult = Null /\ pgError = Null
    /\ pgCall = "none"
    /\ pgLoadingState = FALSE /\ pgStateResult = Null
    /\ rpFile = Null /\ rpData = <<>> /\ rpColumns = {}
    /\ rpFilterNoise = FALSE /\ rpError = Null /\ rpReads = <<>>
    /\ lastEvent = OtherEvent

ReportNext ==
    \/ /\ call3.op = "extract-keywords"
       /\ \E res \in ReportResponses : Step3Resolved(res)
    \/ RunStep3
    \/ Step3Downloaded

SpecReport == ReportInit /\ [][ReportNext]_vars

\* the row list and the report of the current render
rawData == keywordsResult[1].result[1]

report == reportData[1]

(* The aggregation specification: as the report specification, with row
   lists whose rows may lack the keyword.  An exception thrown while the
   page renders takes the page down, so no control is pressed after it. *)
AggregateNext ==
    \/ /\ call3.op = "extract-keywords"
       /\ \E res \in AggregateResponses : Step3Resolved(res)
    \/ /\ reportData # Some(TypeError)
       /\ RunStep3
    \/ Step3Downloaded

SpecAggregate == ReportInit /\ [][AggregateNext]_vars

-----------------------------------------------------------------------------
(* The configuration specification: the home page with stages 1 and 2
   completed for one file, the three configuration dialogs, and the runs of
   the three stages.  An open dialog is modal: while it is open the controls
   of the page behind it take no press. *)

ConfigInit ==
    /\ file = Some([name |-> <<"a", ".", "x">>])
    /\ preprocessResult = Some([message |-> "ok"])
    /\ clusterResult = Some([message |-> "ok", output_file |-> <<>>])
    /\ keywordsResult = Null
    /\ realClusteredFilename = Null
    /\ realKeywordsFilename = Null
    /\ step1Loading = FALSE /\ step1Progress = 100 /\ step1ProgressText = "done"
    /\ step2Loading = FALSE /\ step2Progress = 100 /\ step2ProgressText = "done"
    /\ step3Loading = FALSE /\ step3Progress = 0 /\ step3ProgressText = ""
    /\ error = Null
    /\ llmDialogOpen = FALSE
    /\ llmCfg = [apiKey |-> DefaultApiKey, baseUrl |-> DefaultBaseUrl]
    /\ tempLlm = [apiKey |-> DefaultApiKey, baseUrl |-> DefaultBaseUrl]
    /\ cleanDialogOpen = FALSE /\ cleanCfg = DefaultCleanCfg /\ tempClean = DefaultCleanCfg
    /\ clusterDialogOpen = FALSE
    /\ clusterCfg = DefaultClusterCfg /\ tempCluster = DefaultClusterCfg
    /\ call1 = NoCall /\ call2 = NoCall /\ call3 = NoCall
    /\ currentPage = "home"
    /\ pgFile = Null /\ pgApiKey = DefaultApiKey
    /\ pgLoading = FALSE /\ pgProgress = 0 /\ pgProgressText = ""
    /\ pgResult = Null /\ pgError = Null
    /\ pgCall = "none"
    /\ pgLoadingState = FALSE /\ pgStateResult = Null
    /\ rpFile = Null /\ rpData = <<>> /\ rpColumns = {}
    /\ rpFilterNoise = FALSE /\ rpError = Null /\ rpReads = <<>>
    /\ lastEvent = OtherEvent

\* no dialog covers the page
NoDialogOpen == ~cleanDialogOpen /\ ~clusterDialogOpen /\ ~llmDialogOpen

ConfigNext ==
    \/ NoDialogOpen /\ ConfigureClean
    \/ \E v \in Extractors : EditCleanExtractor(v)
    \/ \E v \in Columns : EditCleanColumn(v)
    \/ \E v \in BOOLEAN : EditCleanUseNer(v)
    \/ SaveClean
    \/ CancelClean
    \/ NoDialogOpen /\ ConfigureCluster
    \/ \E v \in NeighborCounts : EditClusterNeighbors(v)
    \/ \E v \in MinClusterSizes : EditClusterMinCluster(v)
    \/ \E v \in TopNs : EditClusterTopN(v)
    \/ SaveCluster
    \/ CancelCluster
    \/ NoDialogOpen /\ ConfigureLlm
    \/ \E v \in ApiKeys : EditLlmApiKey(v)
    \/ \E v \in BaseUrls : EditLlmBaseUrl(v)
    \/ SaveLlm
    \/ CancelLlm
    \/ NoDialogOpen /\ RunStep1
    \/ NoDialogOpen /\ RunStep2
    \/ NoDialogOpen /\ RunStep3
    \/ Step1TimerFired
    \/ Step1Resolved([message |-> "ok"])
    \/ Step2Downloaded
    \/ Step2Resolved([message |-> "ok", output_file |-> <<>>])
    \/ Step3Downloaded
    \/ Step3Resolved([message |-> "ok", output_file |-> <<>>, result |-> Some(<<>>)])

SpecConfig == ConfigInit /\ [][ConfigNext]_vars

-----------------------------------------------------------------------------
(* The error specification: the home page with stages 1 and 2 completed for
   one file, and runs of the three stages whose remote calls are answered
   with any of the responses that are not ok. *)

ErrorsNext ==
    \/ RunStep1
    \/ Step1TimerFired
    \/ Step1Resolved([message |-> "ok"])
    \/ /\ call1.op = "preprocess"
       /\ \E r \in ErrorResponses : Step1Rejected(ApiError(r))
    \/ RunStep2
    \/ Step2Downloaded
    \/ Step2Resolved([message |-> "ok", output_file |-> <<>>])
    \/ /\ call2.op = "download"
       /\ \E r \in ErrorResponses : Step2Rejected(DownloadError(r))
    \/ /\ call2.op = "cluster"
       /\ \E r \in ErrorResponses : Step2Rejected(ApiError(r))
    \/ RunStep3
    \/ Step3Downloaded
    \/ Step3Resolved([message |-> "ok", output_file |-> <<>>, result |-> Some(<<>>)])
    \/ /\ call3.op = "download"
       /\ \E r \in ErrorResponses : Step3Rejected(DownloadError(r))
    \/ /\ call3.op = "extract-keywords"
       /\ \E r \in ErrorResponses : Step3Rejected(ApiError(r))

SpecErrors == ConfigInit /\ [][ErrorsNext]_vars

-----------------------------------------------------------------------------
(* ResultsPage: a spreadsheet is chosen, read in the browser and shown as a
   table.  A file is its name with what reading it yields: the rows of its
   first sheet (records; the columns are the keys of the first row), or a
   failure of arrayBuffer / XLSX.read.  rpReads holds the files whose read
   was started by handleFileChange and has not completed; reads of different
   files complete in any order. *)

\* number of reads that can be in flight together
MaxReads == 2

ResultFiles ==
    { [name |-> "a", readable |-> TRUE,
       rows |-> << [Cluster |-> 0, Text |-> "t"], [Cluster |-> -1, Text |-> "u"] >>],
      [name |-> "b", readable |-> TRUE, rows |-> << [Text |-> "v"] >>],
      [name |-> "c", readable |-> TRUE, rows |-> << >>],
      [name |-> "d", readable |-> FALSE, rows |-> << >>] }

\* useMemo: the rows shown, without the noise rows when the switch is on
filteredData ==
    LET Kept(row) == row.Cluster # -1 IN
    IF ~rpFilterNoise \/ "Cluster" \notin rpColumns THEN rpData
    ELSE SelectSeq(rpData, Kept)

\* useMemo: the metric cards, null without rows
stats ==
    IF rpData = <<>> THEN Null
    ELSE LET hasCluster == "Cluster" \in rpColumns
             IsNoiseRow(row) == row.Cluster = -1 IN
         Some([ totalRows |-> Len(filteredData),
                nClusters |-> IF hasCluster
                              THEN Cardinality({ filteredData[i].Cluster :
                                                   i \in 1..Len(filteredData) } \ { -1 })
                              ELSE 0,
                nNoise |-> IF hasCluster THEN Len(SelectSeq(rpData, IsNoiseRow)) ELSE 0,
                hasCluster |-> hasCluster ])

\* the results page is mounted, the home page as at start
ResultsInit ==
    /\ file = Null
    /\ preprocessResult = Null /\ clusterResult = Null /\ keywordsResult = Null
    /\ realClusteredFilename = Null /\ realKeywordsFilename = Null
    /\ step1Loading = FALSE /\ step1Progress = 0 /\ step1ProgressText = ""
    /\ step2Loading = FALSE /\ step2Progress = 0 /\ step2ProgressText = ""
    /\ step3Loading = FALSE /\ step3Progress = 0 /\ step3ProgressText = ""
    /\ error = Null
    /\ llmDialogOpen = FALSE
    /\ llmCfg = [apiKey |-> DefaultApiKey, baseUrl |-> DefaultBaseUrl]
    /\ tempLlm = [apiKey |-> DefaultApiKey, baseUrl |-> DefaultBaseUrl]
    /\ cleanDialogOpen = FALSE /\ cleanCfg = DefaultCleanCfg /\ tempClean = DefaultCleanCfg
    /\ clusterDialogOpen = FALSE
    /\ clusterCfg = DefaultClusterCfg /\ tempCluster = DefaultClusterCfg
    /\ call1 = NoCall /\ call2 = NoCall /\ call3 = NoCall
    /\ currentPage = "results"
    /\ pgFile = Null /\ pgApiKey = DefaultApiKey
    /\ pgLoading = FALSE /\ pgProgress = 0 /\ pgProgressText = ""
    /\ pgResult = Null /\ pgError = Null
    /\ pgCall = "none"
    /\ pgLoadingState = FALSE /\ pgStateResult = Null
    /\ rpFile = Null /\ rpData = <<>> /\ rpColumns = {}
    /\ rpFilterNoise = FALSE /\ rpError = Null /\ rpReads = <<>>
    /\ lastEvent = OtherEvent

\* FileUpload with onFileChange = handleFileChange, no file shown: a file is
\* chosen; the handler runs to its await
ResultsSelectFile(f) ==
    /\ rpFile = Null
    /\ Len(rpReads) < MaxReads
    /\ rpFile' = Some(f)
    /\ rpData' = <<>> /\ rpColumns' = {} /\ rpError' = Null
    /\ rpReads' = Append(rpReads, f)
    /\ lastEvent' = OtherEvent
    /\ UNCHANGED << pipelineVars, configVars, standaloneVars, rpFilterNoise >>

\* the remove control of the file shown: handleFileChange(null)
ResultsRemoveFile ==
    /\ rpFile # Null
    /\ rpFile' = Null
    /\ rpData' = <<>> /\ rpColumns' = {} /\ rpError' = Null
    /\ lastEvent' = OtherEvent
    /\ UNCHANGED << pipelineVars, configVars, standaloneVars, rpFilterNoise, rpReads >>

\* the i-th read in flight completes: the rest of handleFileChange
ReadCompleted(i) ==
    LET f == rpReads[i] IN
    /\ i \in 1..Len(rpReads)
    /\ rpReads' = SubSeq(rpReads, 1, i - 1) \o SubSeq(rpReads, i + 1, Len(rpReads))
    /\ IF ~f.readable
       THEN rpError' = Some("read failed") /\ UNCHANGED << rpData, rpColumns >>
       ELSE IF f.rows = <<>>
       THEN rpError' = Some("file is empty") /\ UNCHANGED << rpData, rpColumns >>
       ELSE /\ rpData' = f.rows
            /\ rpColumns' = DOMAIN f.rows[1]
            /\ UNCHANGED rpError
    /\ lastEvent' = OtherEvent
    /\ UNCHANGED << pipelineVars, configVars, standaloneVars, rpFile, rpFilterNoise >>

\* the noise switch: onCheckedChange = setFilterNoise
SetFilterNoise(v) ==
    /\ rpFilterNoise' = v
    /\ lastEvent' = OtherEvent
    /\ UNCHANGED << pipelineVars, configVars, standaloneVars,
                    rpFile, rpData, rpColumns, rpError, rpReads >>

ResultsNext ==
    \/ \E f \in ResultFiles : ResultsSelectFile(f)
    \/ ResultsRemoveFile
    \/ \E i \in 1..MaxReads : ReadCompleted(i)
    \/ \E v \in BOOLEAN : SetFilterNoise(v)

SpecResults == ResultsInit /\ [][ResultsNext]_vars

(* The same with fairness: the timer of stage 1 fires, and every remote call
   that was issued is answered, so each awaited promise settles and the
   section of the handler behind it runs. *)
SpecTermination ==
    /\ ConfigInit /\ [][ErrorsNext]_vars
    /\ WF_vars(Step1TimerFired)
    /\ WF_vars(\/ Step1Resolved([message |-> "ok"])
               \/ \E r \in ErrorResponses : Step1Rejected(ApiError(r)))
    /\ WF_vars(\/ Step2Downloaded
               \/ \E r \in ErrorResponses : Step2Rejected(DownloadError(r)))
    /\ WF_vars(\/ Step2Resolved([message |-> "ok", output_file |-> <<>>])
               \/ \E r \in ErrorResponses : Step2Rejected(ApiError(r)))
    /\ WF_vars(\/ Step3Downloaded
               \/ \E r \in ErrorResponses : Step3Rejected(DownloadError(r)))
    /\ WF_vars(\/ Step3Resolved([message |-> "ok", output_file |-> <<>>,
                                 result |-> Some(<<>>)])
               \/ \E r \in ErrorResponses : Step3Rejected(ApiError(r)))

-----------------------------------------------------------------------------
(* Per-stage views used by the properties *)

Stages == 1..3

StatusOf(n) == CASE n = 1 -> step1Status [] n = 2 -> step2Status [] n = 3 -> step3Status

LoadingOf(n) == CASE n = 1 -> step1Loading [] n = 2 -> step2Loading [] n = 3 -> step3Loading

ResultOf(n) == CASE n = 1 -> preprocessResult [] n = 2 -> clusterResult [] n = 3 -> keywordsResult

ProgressOf(n) == CASE n = 1 -> step1Progress [] n = 2 -> step2Progress [] n = 3 -> step3Progress

CallOf(n) == CASE n = 1 -> call1 [] n = 2 -> call2 [] n = 3 -> call3

\* the committed configuration, the draft and the dialog flag of stage n
CommittedOf(n) == CASE n = 1 -> cleanCfg [] n = 2 -> clusterCfg [] n = 3 -> llmCfg

DraftOf(n) == CASE n = 1 -> tempClean [] n = 2 -> tempCluster [] n = 3 -> tempLlm

DialogOpenOf(n) ==
    CASE n = 1 -> cleanDialogOpen [] n = 2 -> clusterDialogOpen [] n = 3 -> llmDialogOpen

\* the disabled attribute of stage n's run control as HomePage wires it
RunDisabledOf(n) == RunButtonDisabled(IF n = 1 THEN file = Null ELSE FALSE, StatusOf(n))

\* the default text of stage n's catch branch
DefaultMessageOf(n) ==
    CASE n = 1 -> "preprocess failed" [] n = 2 -> "cluster failed" [] n = 3 -> "LLM call failed"

\* the step is a press of stage n's run control
Pressed(n) == lastEvent' = RunEvent(n)

\* the step is the successful completion of stage n's compute call
Resolved(n) == lastEvent'.kind = "resolved" /\ lastEvent'.stage = n

\* the step is the failure of one of stage n's remote calls
Rejected(n) == lastEvent'.kind = "rejected" /\ lastEvent'.stage = n

\* the step starts a run of stage n
Started(n) == Pressed(n) /\ ~LoadingOf(n) /\ LoadingOf(n)'

-----------------------------------------------------------------------------
(* C1: no stage shows Done while the stage immediately upstream of it is not
   Done: stage 2 Done implies stage 1 Done and stage 3 Done implies stage 2
   Done, in every reachable state. *)
C1_DoneImpliesUpstreamDone ==
    /\ step2Status = "done" => step1Status = "done"
    /\ step3Status = "done" => step2Status = "done"

(* C2: the step that starts a run of stage 1 or 2 clears the result and the
   canonical name of every later stage; right after it no later stage shows
   Done, and a later stage with no call of its own in flight shows Waiting
   (so a re-run of stage 1 after the pipeline completed leaves stages 2 and 3
   Waiting with null results and null canonical names). *)
C2_StartClearsDownstream ==
    [][ /\ Started(1) =>
            /\ clusterResult' = Null /\ keywordsResult' = Null
            /\ realClusteredFilename' = Null /\ realKeywordsFilename' = Null
            /\ step2Status' # "done" /\ step3Status' # "done"
            /\ ~step2Loading => step2Status' = "waiting"
            /\ ~step3Loading => step3Status' = "waiting"
        /\ Started(2) =>
            /\ keywordsResult' = Null /\ realKeywordsFilename' = Null
            /\ step3Status' # "done"
            /\ ~step3Loading => step3Status' = "waiting" ]_vars

\* stage 1 has just been re-run after stages 2 and 3 had completed
C2_Witness ==
    /\ lastEvent = RunEvent(1) /\ call1.op = "timer"
    /\ step2Progress = 100 /\ step3Progress = 100
    /\ step2Status = "waiting" /\ step3Status = "waiting"

(* C3: at most one of the three stages is Running in any reachable state. *)
C3_AtMostOneRunning ==
    Cardinality({ n \in Stages : LoadingOf(n) }) <= 1

(* C4: stage 2 is Ready only if stage 1 is Done and stage 3 is Ready only if
   stage 2 is Done; a stage that is neither Running nor Done and whose
   upstream stage is not Done shows Waiting and its run control is disabled. *)
C4_ReadyOnlyAfterUpstreamDone ==
    \A n \in 2..3 :
        /\ StatusOf(n) = "ready" => StatusOf(n - 1) = "done"
        /\ (StatusOf(n) \notin {"running", "done"} /\ StatusOf(n - 1) # "done")
              => (StatusOf(n) = "waiting" /\ RunDisabledOf(n))

\* stage 2 had completed and is Waiting again because stage 1 is being re-run
C4_Witness ==
    /\ step1Status = "running" /\ step2Progress = 100
    /\ step2Status = "waiting" /\ step3Status = "waiting"

(* C5, as claimed: pressing the run control of a stage that is not Ready
   (Waiting, Running or Done) changes nothing. *)
C5_NotReadyIsNoOp ==
    [][ \A n \in Stages :
            (Pressed(n) /\ StatusOf(n) # "ready")
               => UNCHANGED << pipelineVars, configVars >> ]_vars

(* C5, amended: pressing the run control of a stage that is Waiting or
   Running changes no status, result, artifact name, progress or error value
   and issues no remote call. *)
C5_WaitingOrRunningIsNoOp ==
    [][ \A n \in Stages :
            (Pressed(n) /\ StatusOf(n) \in {"waiting", "running"})
               => UNCHANGED << pipelineVars, configVars >> ]_vars

\* the run control of stage 1 was pressed while its compute call was in flight
C5_Witness ==
    /\ lastEvent = RunEvent(1)
    /\ step1Status = "running" /\ call1.op = "preprocess" /\ step1Progress = 40

(* C6, as claimed: whenever handleStep3 runs while the committed credential
   is empty, no remote call is issued, stage 3 does not enter Running, the
   LLM dialog is opened and no error message is signalled. *)
C6_EmptyCredentialOpensDialog ==
    [][ (Pressed(3) /\ ~RunDisabledOf(3) /\ llmCfg.apiKey = "")
           => /\ call3' = NoCall /\ ~step3Loading'
              /\ llmDialogOpen' /\ error' = error ]_vars

(* C6, amended: whenever handleStep3 runs while the committed credential is
   empty, no remote call is issued and stage 3 does not enter Running; the
   LLM dialog is opened, with the error slot untouched, when a name for stage
   2's output can be resolved (a canonical name or a selected file), and
   otherwise the cannot-locate error is signalled and the dialog stays as it
   was. *)
C6_EmptyCredentialNeverCalls ==
    [][ (Pressed(3) /\ ~RunDisabledOf(3) /\ llmCfg.apiKey = "")
           => /\ call3' = NoCall /\ ~step3Loading'
              /\ UNCHANGED << keywordsResult, step3Progress, llmCfg, tempLlm >>
              /\ IF OrElse(realClusteredFilename, fallbackClusteredFilename) # Null
                 THEN llmDialogOpen' /\ error' = error
                 ELSE error' = Some(LocateError) /\ UNCHANGED llmDialogOpen ]_vars

\* handleStep3 ran with an empty committed credential and opened the dialog
C6_Witness ==
    /\ lastEvent = RunEvent(3) /\ llmCfg.apiKey = ""
    /\ step3Status \in {"ready", "done"} /\ llmDialogOpen
    /\ OrElse(realClusteredFilename, fallbackClusteredFilename) # Null

(* C7: the step in which stage n's compute call resolves stores the response
   as stage n's result, leaves the stage not Running and Done with progress
   100, and for stages 2 and 3 sets the canonical name to the final segment
   of the response's output path when that segment is not empty (and leaves
   it as it was otherwise). *)
C7_SuccessStoresResult ==
    [][ \A n \in Stages :
            Resolved(n) =>
               LET res == lastEvent'.arg[1] IN
               /\ ResultOf(n)' = Some(res)
               /\ ~LoadingOf(n)' /\ StatusOf(n)' = "done" /\ ProgressOf(n)' = 100
               /\ CallOf(n)' = NoCall
               /\ n = 2 => realClusteredFilename' =
                              IF LastSegment(res.output_file) # <<>>
                              THEN LastSegment(res.output_file)
                              ELSE realClusteredFilename
               /\ n = 3 => realKeywordsFilename' =
                              IF LastSegment(res.output_file) # <<>>
                              THEN LastSegment(res.output_file)
                              ELSE realKeywordsFilename ]_vars

\* stage 3 has just resolved with a backslash path, after stage 2 resolved
\* with a path that ends in a separator
C7_Witness ==
    /\ lastEvent.kind = "resolved" /\ lastEvent.stage = 3
    /\ lastEvent.arg[1].output_file = <<"o", "\\", "x">>
    /\ realKeywordsFilename = <<"x">>
    /\ clusterResult # Null /\ clusterResult[1].output_file = <<"o", "/">>
    /\ realClusteredFilename = Null
    /\ step3Status = "done"

(* C8: the step in which a remote call of stage n fails puts a message in the
   error slot (the failure's message, else the stage's default text), leaves
   stage n not Running and without a result, and leaves stage n runnable: not
   Waiting and not Running. *)
C8_FailureLeavesStageRunnable ==
    [][ \A n \in Stages :
            Rejected(n) =>
               /\ error' = Some(MessageOf(lastEvent'.arg[1], DefaultMessageOf(n)))
               /\ ~LoadingOf(n)' /\ ResultOf(n)' = Null
               /\ StatusOf(n)' \notin {"waiting", "running"} ]_vars

(* C9: neither a press of stage N's run control nor the failure of a run of
   stage N changes the result or the canonical name of a stage with a
   smaller number. *)
C9_LowerStagesUntouched ==
    [][ /\ (Pressed(2) \/ Rejected(2)) => UNCHANGED preprocessResult
        /\ (Pressed(3) \/ Rejected(3)) =>
              UNCHANGED << preprocessResult, clusterResult, realClusteredFilename >> ]_vars

\* a run of stage 3 has just failed with stages 1 and 2 still holding results
C9_Witness ==
    /\ lastEvent.kind = "rejected" /\ lastEvent.stage = 3
    /\ preprocessResult # Null /\ clusterResult # Null
    /\ realClusteredFilename # Null /\ error # Null

(* C10: an attempt of stage N (a press of its enabled run control) never
   leaves the message of an earlier failure in the error slot: the slot is
   null afterwards or holds a message of this attempt. *)
C10_AttemptClearsError ==
    [][ \A n \in Stages :
            (Pressed(n) /\ ~RunDisabledOf(n) /\ error # Null)
               => (error' = Null \/ error' # error) ]_vars

(* C11: the progress a stage exposes (its progress value while it is Running)
   is within 0..100 and never decreases during a run: the step that starts a
   run sets it to the first checkpoint (below 100, whatever the previous run
   left), it is at the first checkpoint while the first await is outstanding
   and at the second, higher checkpoint while the compute call is
   outstanding, and the value becomes 100 only in the step in which the
   compute call resolves successfully (so 100 is never exposed by a Running
   stage). *)
C11_ProgressMonotonic ==
    [][ \A n \in Stages :
          LET first == IF n = 2 THEN 10 ELSE 15
              second == IF n = 2 THEN 30 ELSE 40
              awaitsFirst == CallOf(n)'.op \in {"timer", "download"}
              awaitsCompute == CallOf(n)'.op \in {"preprocess", "cluster", "extract-keywords"}
          IN
          /\ LoadingOf(n)' => ProgressOf(n)' \in 0..99
          /\ (LoadingOf(n)' /\ awaitsFirst) => ProgressOf(n)' = first
          /\ (LoadingOf(n)' /\ awaitsCompute) => ProgressOf(n)' = second
          /\ Started(n) => ProgressOf(n)' = first
          /\ (LoadingOf(n) /\ LoadingOf(n)') => ProgressOf(n)' >= ProgressOf(n)
          /\ (ProgressOf(n)' = 100 /\ ProgressOf(n) # 100) => Resolved(n) ]_vars

\* stage 2 is Running again after an earlier run of it completed (its
\* canonical name is still stored) and exposes the first checkpoint
C11_Witness ==
    /\ lastEvent = RunEvent(2) /\ call2.op = "download"
    /\ step2Loading /\ step2Progress = 10
    /\ realClusteredFilename # Null

\* the step is a press of the download control of stage n's output
Downloading(n) == lastEvent'.kind = "download" /\ lastEvent'.stage = n

(* C12: whenever an artifact is fetched, its name is the stored canonical
   name of that artifact if there is one and else the stage prefix followed
   by the selected file's name: stage 3's input and the download of stage 2's
   output use realClusteredFilename, else clustered_<name>; the download of
   stage 3's output uses realKeywordsFilename, else keywords_<name>; stage 2's
   input and the download of stage 1's output are always processed_<name>.
   With neither name available nothing is fetched. *)
C12_CanonicalNameWins ==
    [][ LET Resolve(canonical, prefix) ==
                IF canonical # Null THEN canonical
                ELSE IF file # Null THEN <<prefix>> \o file[1].name
                ELSE Null
            Fetches(nm) == IF nm = Null THEN Null ELSE Some(nm)
        IN
        /\ Started(2) =>
              (file # Null /\ call2'.name = <<"processed_">> \o file[1].name)
        /\ Started(3) =>
              /\ Resolve(realClusteredFilename, "clustered_") # Null
              /\ call3'.name = Resolve(realClusteredFilename, "clustered_")
        /\ Downloading(1) => lastEvent'.arg = Fetches(Resolve(Null, "processed_"))
        /\ Downloading(2) =>
              lastEvent'.arg = Fetches(Resolve(realClusteredFilename, "clustered_"))
        /\ Downloading(3) =>
              lastEvent'.arg = Fetches(Resolve(realKeywordsFilename, "keywords_")) ]_vars

\* stage 3 is fetching its input and stage 2's output has just been
\* downloaded, both under the canonical name although a file is selected
C12_Witness ==
    /\ lastEvent = DownloadEvent(2, Some(<<"x">>))
    /\ call3.op = "download" /\ call3.name = <<"x">>
    /\ file # Null /\ realClusteredFilename = <<"x">>
    /\ fallbackClusteredFilename # <<"x">>

(* C13: wherever a file name is derived from a reported output path, it is
   the final segment of the path split on forward slashes and backslashes:
   the canonical names stored by stages 2 and 3 of the home page (none is
   stored when that segment is empty), and the name that the download action
   of the cluster page and of the keywords page puts in the opened URL. *)
C13_SplitsOnEitherSeparator ==
    [][ /\ Resolved(2) =>
              LET seg == LastSegment(lastEvent'.arg[1].output_file) IN
              realClusteredFilename' = IF seg # <<>> THEN seg ELSE realClusteredFilename
        /\ Resolved(3) =>
              LET seg == LastSegment(lastEvent'.arg[1].output_file) IN
              realKeywordsFilename' = IF seg # <<>> THEN seg ELSE realKeywordsFilename
        /\ (lastEvent'.kind = "page-download" /\ lastEvent'.arg # Null) =>
              LET seg == LastSegment(pgResult[1].output_file) IN
              seg # <<>> => lastEvent'.arg = Some(seg) ]_vars

(* C14: a step that changes the selected input file of the home page (a
   removal, or the selection of another file) leaves every stage without a
   result and without a canonical name, hence stages 2 and 3 not Done and,
   unless a call of theirs is outstanding, Waiting. *)
C14_FileChangeResetsStages ==
    [][ file' # file =>
          /\ preprocessResult' = Null /\ clusterResult' = Null /\ keywordsResult' = Null
          /\ realClusteredFilename' = Null /\ realKeywordsFilename' = Null
          /\ ~step2Loading' => step2Status' = "waiting"
          /\ ~step3Loading' => step3Status' = "waiting" ]_vars

(* C15: stage 2 and stage 3 start a run (whose first remote call is the
   download of the upstream artifact) only when the upstream stage is Done;
   when the handler of stage 2 or 3 runs while the upstream stage is not
   Done, it issues no remote call and puts the cannot-locate message in the
   error slot. *)
C15_NoFetchUnlessUpstreamDone ==
    [][ \A n \in 2..3 :
          /\ Started(n) => StatusOf(n - 1) = "done"
          /\ (Pressed(n) /\ ~RunDisabledOf(n) /\ StatusOf(n - 1) # "done")
                => (CallOf(n)' = CallOf(n) /\ error' = Some(LocateError)) ]_vars

(* C16: the report counts each row with its reported count when the row has
   one, a reported 0 included, and with 1 when it has none: totalRecords is
   the sum of these per-row counts, and the entries of fullDisplayList carry
   them. *)
C16_CountDefaultsOnlyWhenAbsent ==
    reportData # Null =>
        LET Reported(row) == IF row.Count # Null THEN row.Count[1] ELSE 1
            RECURSIVE SumReported(_)
            SumReported(rows) ==
                IF rows = <<>> THEN 0
                ELSE SumReported(Tail(rows)) + Reported(Head(rows))
        IN  /\ report.totalRecords = SumReported(rawData)
            /\ Len(rawData) = 1 =>
                   report.fullDisplayList[1].count = Reported(rawData[1])

(* C17: for the rows [Cluster 0 count 50, Cluster 1 count 30, Cluster -1
   count 20] the report has totalRecords 100, topicCount 2, a valid count of
   80 and so coverage 80/100, noiseCount 20, and top10 is cluster 0 with 50
   followed by cluster 1 with 30. *)
C17_Scenario ==
    (reportData # Null /\ rawData = ScenarioRows) =>
        /\ report.totalRecords = 100
        /\ report.topicCount = 2
        /\ report.coverage = [num |-> 80, den |-> 100]
        /\ report.noiseCount = 20
        /\ Len(report.top10) = 2
        /\ report.top10[1].count = 50 /\ report.top10[1].fullName = KeywordOf(0)
        /\ report.top10[2].count = 30 /\ report.top10[2].fullName = KeywordOf(1)
        /\ report.fullDisplayList[1].clusterId = 0
        /\ report.fullDisplayList[2].clusterId = 1

\* stage 3 has resolved with the rows of the worked example
C17_Witness ==
    /\ lastEvent.kind = "resolved" /\ lastEvent.stage = 3
    /\ reportData # Null /\ rawData = ScenarioRows
    /\ step3Status = "done"

(* C18, as claimed: for every row list each entry of the report has
   percentage count / totalRecords; with totalRecords > 0 the percentages of
   the entries add up to 1, and with totalRecords = 0 each is 0. *)
C18_PercentagesSumToOne ==
    reportData # Null =>
        LET entries == report.fullDisplayList
            total == report.totalRecords
            RECURSIVE Gcd(_, _)
            Gcd(a, b) == IF b = 0 THEN a ELSE Gcd(b, a % b)
            RECURSIVE SumRatios(_)
            SumRatios(es) ==
                IF es = <<>> THEN [num |-> 0, den |-> 1]
                ELSE LET rest == SumRatios(Tail(es))
                         p == Head(es).percentage
                         n == rest.num * p.den + p.num * rest.den
                         d == rest.den * p.den
                         g == Gcd(n, d)
                     IN  \* kept in lowest terms
                         [num |-> n \div g, den |-> d \div g]
        IN  /\ \A i \in 1..Len(entries) :
                  /\ total > 0 => entries[i].percentage.num * total
                                     = entries[i].count * entries[i].percentage.den
                  /\ total = 0 => entries[i].percentage.num = 0
            /\ total > 0 => SumRatios(entries).num = SumRatios(entries).den

(* C18, amended: the same for every row list with at most one row of
   clusterId -1 (the report keeps only the first noise row, so with several
   the percentages of its entries add up to less than 1). *)
C18_PercentagesSumToOneWithOneNoiseRow ==
    (reportData # Null
       /\ Cardinality({ i \in 1..Len(rawData) : rawData[i].Cluster = -1 }) <= 1) =>
        LET entries == report.fullDisplayList
            total == report.totalRecords
            RECURSIVE CommonDivisor(_, _)
            CommonDivisor(a, b) == IF b = 0 THEN a ELSE CommonDivisor(b, a % b)
            RECURSIVE AddRatios(_)
            AddRatios(es) ==
                IF es = <<>> THEN [num |-> 0, den |-> 1]
                ELSE LET rest == AddRatios(Tail(es))
                         p == Head(es).percentage
                         n == rest.num * p.den + p.num * rest.den
                         d == rest.den * p.den
                         g == CommonDivisor(n, d)
                     IN  \* kept in lowest terms
                         [num |-> n \div g, den |-> d \div g]
        IN  /\ \A i \in 1..Len(entries) :
                  /\ total > 0 => entries[i].percentage.num * total
                                     = entries[i].count * entries[i].percentage.den
                  /\ total = 0 => entries[i].percentage.num = 0
            /\ total > 0 => AddRatios(entries).num = AddRatios(entries).den
            /\ total > 0 => SumCount(entries) = total

\* a report over two valid rows of different counts and one noise row
C18_Witness ==
    /\ reportData # Null /\ Len(rawData) = 3
    /\ rawData[1].Cluster = -1 /\ rawData[1].Count = Some(2)
    /\ rawData[2].Cluster = 0 /\ rawData[2].Count = Null
    /\ rawData[3].Cluster = 1 /\ rawData[3].Count = Some(2)
    /\ Len(report.fullDisplayList) = 3
    /\ report.fullDisplayList[3].percentage = [num |-> 2, den |-> 5]

(* C19, as claimed: coverage is the valid count (the sum of the counts of the
   entries with clusterId other than -1) over totalRecords, 0 when
   totalRecords is 0; noiseCount is totalRecords minus the valid count when
   exactly one row has clusterId -1 and 0 in every other case. *)
C19_NoiseCountZeroUnlessOneNoiseRow ==
    reportData # Null =>
        LET total == report.totalRecords
            validCount == SumCount(SelectSeq(report.fullDisplayList, IsValid))
            noiseRows == { i \in 1..Len(rawData) : rawData[i].Cluster = -1 }
        IN  /\ total > 0 => report.coverage.num * total = validCount * report.coverage.den
            /\ total = 0 => report.coverage.num = 0
            /\ Cardinality(noiseRows) = 1 => report.noiseCount = total - validCount
            /\ Cardinality(noiseRows) # 1 => report.noiseCount = 0

(* C19, amended: coverage as claimed; noiseCount is totalRecords minus the
   valid count when exactly one row has clusterId -1, 0 when no row has, and
   the count of the first such row when several have. *)
C19_NoiseCountIsFirstNoiseRow ==
    reportData # Null =>
        LET total == report.totalRecords
            validCount == SumCount(SelectSeq(report.fullDisplayList, IsValid))
            noiseRows == { i \in 1..Len(rawData) : rawData[i].Cluster = -1 }
            firstNoise == CHOOSE i \in noiseRows : \A j \in noiseRows : i <= j
            CountUsed(row) == IF row.Count \in { Null, Some(0) } THEN 1 ELSE row.Count[1]
        IN  /\ total > 0 => report.coverage.num * total = validCount * report.coverage.den
            /\ total = 0 => report.coverage.num = 0
            /\ Cardinality(noiseRows) = 1 => report.noiseCount = total - validCount
            /\ Cardinality(noiseRows) = 0 => report.noiseCount = 0
            /\ Cardinality(noiseRows) > 1 =>
                  report.noiseCount = CountUsed(rawData[firstNoise])

\* a report over one valid row and two noise rows of different counts
C19_Witness ==
    /\ reportData # Null /\ Len(rawData) = 3
    /\ rawData[1].Cluster = -1 /\ rawData[1].Count = Some(2)
    /\ rawData[2].Cluster = 0 /\ rawData[2].Count = Some(2)
    /\ rawData[3].Cluster = -1 /\ rawData[3].Count = Null
    /\ report.noiseCount = 2 /\ report.totalRecords = 5
    /\ report.coverage = [num |-> 2, den |-> 5]

(* C20, as claimed: for every row list topicCount is the number of distinct
   cluster ids other than -1 that occur in the rows. *)
C20_TopicCountDistinctIds ==
    reportData # Null =>
        report.topicCount
           = Cardinality({ rawData[i].Cluster : i \in 1..Len(rawData) } \ { -1 })

(* C20, amended: topicCount is the number of rows whose clusterId is not -1,
   which is the number of distinct cluster ids other than -1 whenever no such
   id occurs in two rows; rows with clusterId -1 never contribute. *)
C20_TopicCountValidRows ==
    reportData # Null =>
        LET validRows == { i \in 1..Len(rawData) : rawData[i].Cluster # -1 }
            ids == { rawData[i].Cluster : i \in validRows }
        IN  /\ report.topicCount = Cardinality(validRows)
            /\ (\A i, j \in validRows : rawData[i].Cluster = rawData[j].Cluster => i = j)
                  => report.topicCount = Cardinality(ids)

\* a report over two rows of the same cluster and a noise row
C20_Witness ==
    /\ reportData # Null /\ Len(rawData) = 3
    /\ rawData[1].Cluster = 0 /\ rawData[2].Cluster = -1 /\ rawData[3].Cluster = 0
    /\ report.topicCount = 2


(* C21: for every row list with a row of clusterId -1 the last element of
   fullDisplayList is a noise entry carrying the count of that row (the first
   such row when there are several), whatever that count is, and every
   earlier element is a valid entry; without such a row fullDisplayList is
   the valid entries alone, in descending order of count. *)
C21_NoiseEntryLastWithRowCount ==
    reportData # Null =>
        LET list == report.fullDisplayList
            noiseRows == { i \in 1..Len(rawData) : rawData[i].Cluster = -1 }
            validRows == { i \in 1..Len(rawData) : rawData[i].Cluster # -1 }
            firstNoise == CHOOSE i \in noiseRows : \A j \in noiseRows : i <= j
            RowCount(row) == IF row.Count = Null THEN 1 ELSE row.Count[1]
        IN  /\ noiseRows # {} =>
                  /\ Len(list) = Cardinality(validRows) + 1
                  /\ list[Len(list)].clusterId = -1
                  /\ list[Len(list)].count = RowCount(rawData[firstNoise])
                  /\ \A k \in 1..(Len(list) - 1) : list[k].clusterId # -1
            /\ noiseRows = {} =>
                  /\ Len(list) = Cardinality(validRows)
                  /\ \A k \in 1..Len(list) : list[k].clusterId # -1
                  /\ \A k \in 1..(Len(list) - 1) : list[k].count >= list[k + 1].count


(* C22: for every row list the valid entries (clusterId other than -1) are
   in descending order of their count, entries of equal count in the order
   of their rows; top10 is the first min(10, number of valid entries) of
   that order, each with the count and the whole keyword of its entry and a
   label that is the keyword when it has at most 8 characters and its first
   8 characters followed by the ellipsis marker when it has more. *)
C22_ValidSortedStableAndTop10 ==
    reportData # Null =>
        LET sorted == SelectSeq(report.fullDisplayList, IsValid)
            validRows == { i \in 1..Len(rawData) : rawData[i].Cluster # -1 }
            EntryCount(i) ==
                IF rawData[i].Count \in { Null, Some(0) } THEN 1 ELSE rawData[i].Count[1]
            Before(j, i) ==
                \/ EntryCount(j) > EntryCount(i)
                \/ EntryCount(j) = EntryCount(i) /\ j < i
            Rank(i) == 1 + Cardinality({ j \in validRows : Before(j, i) })
            Shown == IF Cardinality(validRows) < 10 THEN Cardinality(validRows) ELSE 10
        IN  /\ Len(sorted) = Cardinality(validRows)
            /\ \A i \in validRows :
                  /\ sorted[Rank(i)].clusterId = rawData[i].Cluster
                  /\ sorted[Rank(i)].keyword = rawData[i].LLM_Keywords
                  /\ sorted[Rank(i)].count = EntryCount(i)
            /\ Len(report.top10) = Shown
            /\ \A k \in 1..Shown :
                  LET kw == sorted[k].keyword
                      label == report.top10[k].name IN
                  /\ report.top10[k].count = sorted[k].count
                  /\ report.top10[k].fullName = kw
                  /\ Len(kw) <= 8 => label = kw
                  /\ Len(kw) > 8 =>
                        /\ Len(label) = 8 + Len(Ellipsis)
                        /\ \A c \in 1..8 : label[c] = kw[c]
                        /\ \A c \in 1..Len(Ellipsis) : label[8 + c] = Ellipsis[c]

\* a report over eleven valid rows, ten of them charted, the first with a
\* shortened label
C22_Witness ==
    /\ reportData # Null /\ rawData = ManyRows
    /\ report.topicCount = 11 /\ Len(report.top10) = 10
    /\ report.top10[1].count = 2 /\ report.top10[1].fullName = ShortKeyword
    /\ report.top10[4].fullName = LongKeyword
    /\ report.top10[4].name = <<"k", "e", "y", "w", "o", "r", "d", "s", ".", ".", ".">>


(* C23: aggregation never fails: for every stage 3 result with a row list
   (empty, with rows without a count, with rows without a keyword) it
   returns a report; when totalRecords is 0 the report has coverage 0,
   topicCount 0, noiseCount 0, an empty top10 and an empty fullDisplayList
   (so no percentage other than 0). *)
C23_AggregationNeverFails ==
    reportData # Null =>
        /\ report # TypeError
        /\ report.totalRecords = 0 =>
              /\ report.coverage.num = 0
              /\ report.topicCount = 0
              /\ report.noiseCount = 0
              /\ report.top10 = <<>>
              /\ report.fullDisplayList = <<>>


(* C24: for each of the three stage configurations, an edit in the dialog
   changes the draft and nothing else; cancelling leaves the committed
   configuration (and the draft) as they were; saving makes the committed
   configuration equal to the whole draft in that one step; and the step
   that starts a run of the stage captures the committed configuration, which
   no later dialog step changes under the run. *)
C24_DraftOnlyEditsAtomicSave ==
    [][ \A n \in Stages :
          /\ lastEvent' = ConfigEvent("edit", n) =>
                /\ CommittedOf(n)' = CommittedOf(n)
                /\ UNCHANGED << pipelineVars, cleanCfg, clusterCfg, llmCfg,
                                cleanDialogOpen, clusterDialogOpen, llmDialogOpen >>
                /\ \A m \in Stages \ {n} : DraftOf(m)' = DraftOf(m)
          /\ lastEvent' = ConfigEvent("cancel", n) =>
                /\ CommittedOf(n)' = CommittedOf(n)
                /\ DraftOf(n)' = DraftOf(n)
                /\ ~DialogOpenOf(n)'
                /\ UNCHANGED pipelineVars
          /\ lastEvent' = ConfigEvent("save", n) =>
                /\ CommittedOf(n)' = DraftOf(n)
                /\ DraftOf(n)' = DraftOf(n)
                /\ ~DialogOpenOf(n)'
                /\ \A m \in Stages \ {n} : CommittedOf(m)' = CommittedOf(m)
                /\ UNCHANGED pipelineVars
          /\ Started(n) =>
                /\ CallOf(n)'.cfg = Some(CommittedOf(n))
                /\ CommittedOf(n)' = CommittedOf(n)
          /\ (CommittedOf(n)' # CommittedOf(n)) => lastEvent' = ConfigEvent("save", n) ]_vars

\* stage 1 has just been started with a committed configuration that differs
\* from the initial one in both fields, while the draft left by a cancelled
\* edit differs from it
C24_Witness ==
    /\ lastEvent = RunEvent(1) /\ call1.op = "timer"
    /\ cleanCfg.extractor # DefaultCleanCfg.extractor
    /\ cleanCfg.useNer # DefaultCleanCfg.useNer
    /\ call1.cfg = Some(cleanCfg)
    /\ tempClean # cleanCfg /\ ~cleanDialogOpen


(* C29: whenever one of the three configuration dialogs becomes open, by the
   stage's configure control or by the missing-credential guard of stage 3,
   its draft equals the committed configuration at that moment (so edits
   that a cancel discarded are not shown again and a later save cannot
   commit them). *)
C29_DialogOpensWithCommittedDraft ==
    [][ \A n \in Stages :
          (~DialogOpenOf(n) /\ DialogOpenOf(n)') => DraftOf(n)' = CommittedOf(n)' ]_vars


(* C25, as claimed: for every remote operation, a response that is not ok
   surfaces as the error whose text is the detail of the response body when
   the body is JSON with a detail message, and "HTTP <status>" when the body
   is not JSON or has no detail message. *)
C25_DetailOrHttpStatus ==
    [][ \A n \in Stages :
          (Rejected(n) /\ lastEvent'.arg[1].response # Null) =>
              LET res == lastEvent'.arg[1].response[1]
                  hasDetail == res.body.json /\ res.body.detail \notin { Null, Some("") }
              IN  /\ hasDetail => error' = res.body.detail
                  /\ ~hasDetail => error' = Some("HTTP " \o ToString(res.status)) ]_vars

(* C25, amended: for preprocess, cluster and extract-keywords the text is the
   detail when the body is JSON with a detail message, "HTTP <status>" when
   the body is JSON without one, and "Unknown error" when the body is not
   JSON; for a download it is "Download failed: HTTP <status>" whatever the
   body holds. *)
C25_DetailStatusOrUnknown ==
    [][ \A n \in Stages :
          (Rejected(n) /\ lastEvent'.arg[1].response # Null) =>
              LET res == lastEvent'.arg[1].response[1]
                  hasDetail == res.body.json /\ res.body.detail \notin { Null, Some("") }
                  status == ToString(res.status)
              IN  IF CallOf(n).op = "download"
                  THEN error' = Some("Download failed: HTTP " \o status)
                  ELSE /\ hasDetail => error' = res.body.detail
                       /\ (res.body.json /\ ~hasDetail) => error' = Some("HTTP " \o status)
                       /\ ~res.body.json => error' = Some("Unknown error") ]_vars

\* the clustering request of stage 2 has been answered 500 with a detail,
\* which is the error shown
C25_Witness ==
    /\ lastEvent.kind = "rejected" /\ lastEvent.stage = 2
    /\ lastEvent.arg[1].response
          = Some([status |-> 500, body |-> [json |-> TRUE, detail |-> Some("no such column")]])
    /\ lastEvent.arg[1].message = "no such column"
    /\ error = Some("no such column")
    /\ ~step2Loading


(* C26: every run that has entered Running leaves it, given that the timer
   of stage 1 fires and every issued remote call is answered; the step in
   which a stage leaves Running is either the resolution of its compute
   call, after which the stage is Done and holds the result, or the
   rejection of one of its calls, after which the stage is not Running and
   an error message is shown; and a stage is Running only while one of its
   calls (or its timer) is outstanding. *)
C26_RunningEventuallyEnds ==
    /\ \A n \in Stages : LoadingOf(n) ~> ~LoadingOf(n)
    /\ [](\A n \in Stages : LoadingOf(n) => CallOf(n).op # "none")
    /\ [][ \A n \in Stages :
             (LoadingOf(n) /\ ~LoadingOf(n)') =>
                 \/ /\ Resolved(n)
                    /\ ResultOf(n)' = lastEvent'.arg
                    /\ StatusOf(n)' = "done"
                 \/ /\ Rejected(n)
                    /\ error' # Null
                    /\ StatusOf(n)' # "running" ]_vars

\* the run of stage 3 has ended with an error: the flag is cleared, no call
\* is outstanding and the message is shown
C26_Witness ==
    /\ lastEvent.kind = "rejected" /\ lastEvent.stage = 3
    /\ ~step3Loading /\ call3 = NoCall
    /\ error = Some(lastEvent.arg[1].message)
    /\ step3Status # "running"


(* C27: in every reachable state the canonical name of stage 2 is non-null
   only if stage 2 holds a result, and is then the final path segment of
   that result's output_file; likewise for stage 3 (so after a re-run of the
   stage has started, failed, or succeeded without an output path, no
   canonical name of an earlier run remains). *)
C27_CanonicalNameOfCurrentResult ==
    /\ realClusteredFilename # Null =>
          /\ clusterResult # Null
          /\ realClusteredFilename = LastSegment(clusterResult[1].output_file)
    /\ realKeywordsFilename # Null =>
          /\ keywordsResult # Null
          /\ realKeywordsFilename = LastSegment(keywordsResult[1].output_file)


(* C28: a stage never has two overlapping runs of itself: while stage n has
   a call (or its timer) outstanding the stage is Running and its run
   control is disabled; a press of the control while the call is outstanding
   leaves that call as it is, so no second run joins or replaces it; and the
   step that writes stage n's result is the resolution of the outstanding
   compute call of stage n, after which no call of stage n is outstanding. *)
C28_NoOverlappingRuns ==
    /\ [](\A n \in Stages :
             CallOf(n).op # "none" => (LoadingOf(n) /\ RunDisabledOf(n)))
    /\ [][ \A n \in Stages :
             /\ (Pressed(n) /\ CallOf(n).op # "none") => CallOf(n)' = CallOf(n)
             /\ (Pressed(n) /\ CallOf(n)' # CallOf(n)) =>
                   (CallOf(n) = NoCall /\ ~LoadingOf(n) /\ LoadingOf(n)')
             /\ (ResultOf(n)' # ResultOf(n) /\ ResultOf(n)' # Null) =>
                   /\ Resolved(n)
                   /\ CallOf(n).op \in {"preprocess", "cluster", "extract-keywords"}
                   /\ CallOf(n)' = NoCall ]_vars

\* the run control of stage 2 was pressed while its clustering call was in
\* flight, and the call is still the outstanding one
C28_Witness ==
    /\ lastEvent = RunEvent(2)
    /\ call2.op = "cluster" /\ step2Loading /\ step2Progress = 30
    /\ RunDisabledOf(2)


(* C30: on the results page, whatever the order in which the reads of the
   chosen files complete, what is displayed belongs to the file chosen last:
   with no file chosen (none yet, or the file removed) there are no rows, no
   columns and no error; with a file chosen the rows, columns and error are
   either still cleared (its read is in flight) or what reading that file
   yields, and the filtered rows and the metrics derive from its rows. *)
C30_DisplayBelongsToLatestFile ==
    /\ rpFile = Null =>
          /\ rpData = <<>> /\ rpColumns = {} /\ rpError = Null
          /\ filteredData = <<>> /\ stats = Null
    /\ rpFile # Null =>
          LET f == rpFile[1] IN
          /\ rpData \in { <<>>, f.rows }
          /\ rpData # <<>> => (rpColumns = DOMAIN f.rows[1] /\ rpError = Null)
          /\ rpData = <<>> => rpColumns = {}
          /\ rpError # Null => (~f.readable \/ f.rows = <<>>)
          /\ stats # Null => stats[1].totalRows <= Len(f.rows)

====
